------------------------- MODULE Accumulators_proofs --------------------------
(***************************************************************************)
(* What is held, paid and settled for an accumulator, for any number of    *)
(* users, bets, events and requests that overlap in any way.  A settlement *)
(* decides an accumulator from the row and the legs it read when it locked *)
(* the event.  What its lock protects is the leg on that event, and with   *)
(* it the stake: they stand until it commits (LegHolds), which is enough   *)
(* for the money.  The status and the other legs may change meanwhile, and *)
(* the theorems name the commits that this leads astray.                   *)
(***************************************************************************)
EXTENDS Betting_proofs

\* The legs on the event that a request has locked stand as it read them, and so do the stakes.
LegHolds(h) ==
  LET view == req[h].view
      e == req[h].event
  IN  \A a \in Accas :
        /\ acca[a].legs[e].status = view[a].legs[e].status
        /\ view[a].legs[e].status # "NONE" => acca[a].stake = view[a].stake

LegsHold == \A h \in Handlers : RunsAdmin(h) => LegHolds(h)

\* No two requests have locked one event.
LocksApart ==
  \A g, h \in Handlers : RunsAdmin(g) /\ RunsAdmin(h) /\ g # h => req[g].event # req[h].event

\* An accumulator that is not there has no legs left, one that ever was has a stake.
RowSound(a) ==
  /\ acca[a].status = "ABSENT" => \A f \in Events : acca[a].legs[f].status = "NONE"
  /\ acca[a].status = "DELETED" => \A f \in Events : acca[a].legs[f].status \in {"NONE", "DELETED"}
  /\ acca[a].status # "ABSENT" => acca[a].stake > 0

AccasSound ==
  /\ \A a \in Accas : RowSound(a)
  /\ \A h \in Handlers : Sensible(req[h])
  /\ LegsHold /\ LocksApart

\* The tokens held and the points paid for a change by these amounts.
MoneyMoves(a, held, paid) == HeldFor(a)' = HeldFor(a) + held /\ PaidFor(a)' = PaidFor(a) + paid

SameStake(a) == acca'[a].stake = acca[a].stake

\* How a step may turn an accumulator.
AccaTurns(a) ==
  \/ /\ acca'[a].status = acca[a].status /\ SameStake(a) /\ acca'[a].payout = acca[a].payout
     /\ MoneyMoves(a, 0, 0)
  \/ /\ acca[a].status = "ABSENT" /\ acca'[a].status = "PENDING" /\ acca'[a].stake > 0
     /\ MoneyMoves(a, acca'[a].stake, 0)
  \/ /\ acca[a].status = "PENDING" /\ acca'[a].status = "WON" /\ SameStake(a)
     /\ acca'[a].payout > 0 /\ MoneyMoves(a, 0, acca'[a].payout)
  \/ /\ acca[a].status = "PENDING" /\ acca'[a].status = "LOST" /\ SameStake(a)
     /\ MoneyMoves(a, 0, 0)
  \/ /\ acca[a].status = "PENDING" /\ acca'[a].status = "CANCELLED" /\ SameStake(a)
     /\ MoneyMoves(a, -acca[a].stake, 0)
  \/ /\ acca[a].status = "CANCELLED" /\ acca'[a].status = "PENDING" /\ SameStake(a)
     /\ MoneyMoves(a, acca[a].stake, 0)
  \/ /\ acca[a].status \notin {"ABSENT", "DELETED"} /\ acca'[a].status = "DELETED" /\ SameStake(a)
     /\ MoneyMoves(a, 0, 0) /\ LiveLegs(acca'[a]) = {}

\* Or it is reopened a second time.
TurnsAgain(a) ==
  ReopensAgain(a) /\ acca[a].status # "ABSENT" /\ acca'[a].status = "PENDING" /\ SameStake(a)

\* The numbers an accumulator's money is made of.
LEMMA AccaNumbers ==
  ASSUME WalletsTypeOK, NEW a \in Accas
  PROVE  /\ a \in Bets /\ a \notin Preds
         /\ tokenLedger[a].stake \in Nat /\ tokenLedger[a].refund \in Nat
         /\ pointsLedger[a].win \in Nat /\ pointsLedger[a].cashout \in Nat
         /\ HeldFor(a) \in Int /\ PaidFor(a) \in Nat
<1>1. a \in Bets /\ a \notin Preds
  BY BetIdsAssumption DEF Bets
<1>2. /\ tokenLedger[a].stake \in Nat /\ tokenLedger[a].refund \in Nat
      /\ pointsLedger[a].win \in Nat /\ pointsLedger[a].cashout \in Nat
  BY <1>1 DEF WalletsTypeOK
<1> QED
  BY <1>1, <1>2 DEF HeldFor, PaidFor

\* What postings move, for one accumulator.
LEMMA MovesByPostings ==
  ASSUME WalletsTypeOK, NEW a \in Accas, NEW debit \in Nat, NEW refund \in Nat, NEW win \in Nat,
         \/ UNCHANGED tokenLedger /\ debit = 0 /\ refund = 0
         \/ \E grant, debits, refunds, owner :
              /\ PostTokens(grant, debits, refunds, owner)
              /\ AmountIn(debits, a) = debit /\ AmountIn(refunds, a) = refund,
         \/ UNCHANGED pointsLedger /\ win = 0
         \/ \E wins, cashouts, owner :
              /\ PostPoints(wins, cashouts, owner)
              /\ AmountIn(wins, a) = win /\ AmountIn(cashouts, a) = 0
  PROVE  MoneyMoves(a, debit - refund, win)
<1>1. /\ a \in Bets
      /\ tokenLedger[a].stake \in Nat /\ tokenLedger[a].refund \in Nat
      /\ pointsLedger[a].win \in Nat /\ pointsLedger[a].cashout \in Nat
  BY AccaNumbers
<1>2. /\ tokenLedger'[a].stake = tokenLedger[a].stake + debit
      /\ tokenLedger'[a].refund = tokenLedger[a].refund + refund
  <2>1. CASE UNCHANGED tokenLedger /\ debit = 0 /\ refund = 0
    BY <1>1, <2>1
  <2>2. ASSUME NEW grant, NEW debits, NEW refunds, NEW owner,
               PostTokens(grant, debits, refunds, owner),
               AmountIn(debits, a) = debit, AmountIn(refunds, a) = refund
        PROVE  /\ tokenLedger'[a].stake = tokenLedger[a].stake + debit
               /\ tokenLedger'[a].refund = tokenLedger[a].refund + refund
    BY <1>1, <2>2, TokenRows
  <2> QED
    BY <2>1, <2>2
<1>3. /\ pointsLedger'[a].win = pointsLedger[a].win + win
      /\ pointsLedger'[a].cashout = pointsLedger[a].cashout
  <2>1. CASE UNCHANGED pointsLedger /\ win = 0
    BY <1>1, <2>1
  <2>2. ASSUME NEW wins, NEW cashouts, NEW owner, PostPoints(wins, cashouts, owner),
               AmountIn(wins, a) = win, AmountIn(cashouts, a) = 0
        PROVE  /\ pointsLedger'[a].win = pointsLedger[a].win + win
               /\ pointsLedger'[a].cashout = pointsLedger[a].cashout
    BY <1>1, <2>2, PointRows
  <2> QED
    BY <2>1, <2>2
<1>4. HeldFor(a)' = HeldFor(a) + (debit - refund)
  <2>1. \A i, j, k, l \in Nat : (i + k) - (j + l) = (i - j) + (k - l)
    OBVIOUS
  <2>2. (tokenLedger[a].stake + debit) - (tokenLedger[a].refund + refund)
          = (tokenLedger[a].stake - tokenLedger[a].refund) + (debit - refund)
    BY <1>1, <2>1
  <2> QED
    BY <1>2, <2>2 DEF HeldFor
<1>5. PaidFor(a)' = PaidFor(a) + win
  <2>1. \A i, j, k \in Nat : (i + k) + j = (i + j) + k
    OBVIOUS
  <2>2. (pointsLedger[a].win + win) + pointsLedger[a].cashout
          = (pointsLedger[a].win + pointsLedger[a].cashout) + win
    BY <1>1, <2>1
  <2> QED
    BY <1>3, <2>2 DEF PaidFor
<1> QED
  BY <1>4, <1>5 DEF MoneyMoves

\* The rows for predictions hold nothing for an accumulator.
LEMMA PredRowsApart ==
  ASSUME NEW a \in Accas, NEW f, NEW g, DOMAIN f \subseteq Preds
  PROVE  AmountIn(f, a) = 0 /\ AmountIn(Both(f, g), a) = AmountIn(g, a)
<1>1. a \notin DOMAIN f
  BY BetIdsAssumption
<1> QED
  BY <1>1 DEF AmountIn, Both

\* Moving a leg, and nothing else of the row.
LEMMA MoveLegLegs ==
  ASSUME NEW r \in AccaRow, NEW e \in Events, NEW from, NEW to
  PROVE  LET row == MoveLeg(r, e, from, to)
         IN  /\ row.status = r.status /\ row.stake = r.stake
             /\ row.potential = r.potential /\ row.payout = r.payout
             /\ {"status", "stake", "potential", "payout", "legs"} \subseteq DOMAIN row
             /\ \A f \in Events :
                  /\ row.legs[f].price = r.legs[f].price
                  /\ row.legs[f].status =
                       IF f = e /\ r.legs[e].status = from THEN to ELSE r.legs[f].status
<1>1. r.legs \in [Events -> Leg]
  BY DEF AccaRow
<1>2. \A f \in Events : r.legs[f] \in Leg
  BY <1>1
<1>3. CASE r.legs[e].status = from
  <2>1. MoveLeg(r, e, from, to) = [r EXCEPT !.legs[e].status = to]
    BY <1>3 DEF MoveLeg, WithLeg
  <2> QED
    BY <1>1, <1>2, <1>3, <2>1 DEF AccaRow, Leg
<1>4. CASE r.legs[e].status # from
  BY <1>1, <1>2, <1>4 DEF MoveLeg, AccaRow, Leg
<1> QED
  BY <1>3, <1>4

\* settle
LEMMA SettleTurns ==
  ASSUME TypeOK, NEW h \in Handlers, NEW bonus, CommitSettle(h, bonus), NEW a \in Accas
  PROVE  AccaTurns(a)
<1> DEFINE e == req[h].event
           n == req[h].outcome
           view == req[h].view
           f == PredWins(e, n)
           g == AccaSettleWins(view, e, n)
           row == MoveLeg(acca[a], e, "PENDING", LegVerdict(acca[a], e, n))
           won == MarkedBySettle(view, e, n, "WON")
           lost == MarkedBySettle(view, e, n, "LOST")
<1>1. /\ WalletsTypeOK /\ acca[a] \in AccaRow /\ a \in Bets
      /\ e \in Events /\ view \in AccaTable
  BY RequestFields, AccaNumbers DEF CommitSettle, TypeOK, AccasTypeOK
<1>2. /\ row.status = acca[a].status /\ row.stake = acca[a].stake
      /\ row.payout = acca[a].payout
      /\ {"status", "stake", "potential", "payout", "legs"} \subseteq DOMAIN row
  BY <1>1, MoveLegLegs
<1>3. acca'[a] = IF a \in won THEN [row EXCEPT !.status = "WON", !.payout = view[a].potential]
                 ELSE IF a \in lost THEN [row EXCEPT !.status = "LOST", !.payout = 0]
                 ELSE row
  BY DEF CommitSettle, SettledAccas
<1>4. PostPoints(Both(f, g), NoRows, OwnerNow) /\ PostTokens(bonus, NoRows, NoRows, OwnerNow)
  BY DEF CommitSettle
<1>5. DOMAIN f \subseteq Preds
  BY DEF PredWins, WinnersOf, OnEvent
<1>6. AmountIn(g, a) = IF a \in won THEN view[a].potential ELSE 0
  BY DEF AmountIn, AccaSettleWins
<1>7. AmountIn(Both(f, g), a) = IF a \in won THEN view[a].potential ELSE 0
  BY <1>5, <1>6, PredRowsApart
<1>8. AmountIn(NoRows, a) = 0
  BY NoRowsAmount
<1>9. view[a].potential \in Nat
  BY <1>1 DEF AccaTable, AccaRow
<1>10. a \in won \cup lost => acca[a].status = "PENDING"
  BY DEF MarkedBySettle
<1>11. CASE a \in won
  <2> DEFINE win == view[a].potential
  <2>1. win > 0
    <3>1. a \in DOMAIN Both(f, g) /\ a \notin DOMAIN f
      BY <1>5, <1>11, BetIdsAssumption DEF Both, AccaSettleWins
    <3>2. Both(f, g)[a] = win
      BY <1>7, <1>11, <3>1 DEF AmountIn
    <3> QED
      BY <1>4, <3>1, <3>2 DEF PostPoints
  <2>2. acca'[a].status = "WON" /\ acca'[a].payout = win /\ acca'[a].stake = acca[a].stake
    BY <1>2, <1>3, <1>11
  <2>3. win \in Nat /\ AmountIn(Both(f, g), a) = win
    BY <1>7, <1>9, <1>11
  <2> HIDE DEF win, f, g
  <2>4. MoneyMoves(a, 0 - 0, win)
    BY <1>1, <1>4, <1>8, <2>3, MovesByPostings
  <2>5. MoneyMoves(a, 0, win)
    BY <2>4
  <2> QED
    BY <1>10, <1>11, <2>1, <2>2, <2>5 DEF AccaTurns, SameStake
<1>12. CASE a \notin won
  <2>1. AmountIn(Both(f, g), a) = 0
    BY <1>7, <1>12
  <2> HIDE DEF f, g
  <2>2. MoneyMoves(a, 0 - 0, 0)
    BY <1>1, <1>4, <1>8, <2>1, MovesByPostings
  <2>3. MoneyMoves(a, 0, 0)
    BY <2>2
  <2>4. CASE a \in lost
    <3>1. acca'[a].status = "LOST" /\ acca'[a].stake = acca[a].stake
      BY <1>2, <1>3, <1>12, <2>4
    <3> QED
      BY <1>10, <2>3, <2>4, <3>1 DEF AccaTurns, SameStake
  <2>5. CASE a \notin lost
    <3>1. acca'[a] = row
      BY <1>3, <1>12, <2>5
    <3> QED
      BY <1>2, <2>3, <3>1 DEF AccaTurns, SameStake
  <2> QED
    BY <2>4, <2>5
<1> QED
  BY <1>11, <1>12

\* cancel
LEMMA CancelTurns ==
  ASSUME TypeOK, NEW h \in Handlers, CommitCancel(h), LegHolds(h), NEW a \in Accas
  PROVE  AccaTurns(a)
<1> DEFINE e == req[h].event
           view == req[h].view
           f == StakesOf(e, "PENDING")
           g == AccaCancelRefunds(view, e)
           w == AccaCancelWins(view, e)
           row == MoveLeg(acca[a], e, "PENDING", "REFUNDED")
           repriced == [row EXCEPT !.potential = PotentialWithout(view[a], e)]
           lost == MarkedByCancel(view, e, "LOST")
           cancelled == MarkedByCancel(view, e, "CANCELLED")
           won == MarkedByCancel(view, e, "WON")
           waiting == MarkedByCancel(view, e, "PENDING")
<1>1. /\ WalletsTypeOK /\ acca[a] \in AccaRow /\ a \in Bets
      /\ e \in Events /\ view \in AccaTable
  BY RequestFields, AccaNumbers DEF CommitCancel, TypeOK, AccasTypeOK
<1>2. /\ row.status = acca[a].status /\ row.stake = acca[a].stake
      /\ row.payout = acca[a].payout
      /\ {"status", "stake", "potential", "payout", "legs"} \subseteq DOMAIN row
  BY <1>1, MoveLegLegs
<1>3. acca'[a] = IF a \in lost THEN [row EXCEPT !.status = "LOST", !.payout = 0]
                 ELSE IF a \in cancelled THEN [row EXCEPT !.status = "CANCELLED", !.payout = 0]
                 ELSE IF a \in won
                 THEN [repriced EXCEPT !.status = "WON", !.payout = repriced.potential]
                 ELSE IF a \in waiting THEN repriced
                 ELSE row
  BY DEF CommitCancel, CancelledAccas
<1>4. PostTokens(NoGrant, NoRows, Both(f, g), OwnerNow) /\ PostPoints(w, NoRows, OwnerNow)
  BY DEF CommitCancel
<1>5. /\ a \in lost \cup cancelled \cup won => acca[a].status = "PENDING"
      /\ a \in lost => a \notin cancelled /\ a \notin won
      /\ a \in cancelled => a \notin won
      /\ a \in cancelled => view[a].stake = acca[a].stake
  BY <1>1 DEF MarkedByCancel, Affected, LegHolds
<1>6. DOMAIN f \subseteq Preds
  BY DEF StakesOf, OnEvent
<1>7. AmountIn(g, a) = IF a \in cancelled THEN view[a].stake ELSE 0
  BY DEF AmountIn, AccaCancelRefunds
<1>8. AmountIn(Both(f, g), a) = IF a \in cancelled THEN acca[a].stake ELSE 0
  BY <1>5, <1>6, <1>7, PredRowsApart
<1>9. AmountIn(w, a) = IF a \in won THEN PotentialWithout(view[a], e) ELSE 0
  BY DEF AmountIn, AccaCancelWins
<1>10. AmountIn(NoRows, a) = 0
  BY NoRowsAmount
<1>11. acca[a].stake \in Nat
  BY <1>1, StakesNat DEF AccaRow
<1>12. CASE a \in won
  <2> DEFINE win == PotentialWithout(view[a], e)
  <2>1. win \in Nat /\ win > 0
    <3>1. view[a] \in AccaRow /\ ActiveAfterCancel(view[a], e) \in SUBSET Events
      BY <1>1 DEF AccaTable, ActiveAfterCancel, LegsIn
    <3>2. a \in DOMAIN w /\ w[a] = win
      BY <1>12 DEF AccaCancelWins
    <3> QED
      BY <1>4, <3>1, <3>2, PayoutNat DEF PostPoints, PotentialWithout
  <2>2. acca'[a].status = "WON" /\ acca'[a].payout = win /\ acca'[a].stake = acca[a].stake
    <3> HIDE DEF row
    <3> QED
      BY <1>2, <1>3, <1>5, <1>12
  <2>3. AmountIn(w, a) = win /\ AmountIn(Both(f, g), a) = 0
    BY <1>5, <1>8, <1>9, <1>12
  <2> HIDE DEF win, f, g, w
  <2>4. MoneyMoves(a, 0 - 0, win)
    BY <1>1, <1>4, <1>10, <2>1, <2>3, MovesByPostings
  <2>5. MoneyMoves(a, 0, win)
    BY <2>4
  <2> QED
    BY <1>5, <1>12, <2>1, <2>2, <2>5 DEF AccaTurns, SameStake
<1>13. CASE a \in cancelled
  <2> DEFINE stake == acca[a].stake
  <2>1. acca'[a].status = "CANCELLED" /\ acca'[a].stake = acca[a].stake
    <3> HIDE DEF row
    <3> QED
      BY <1>2, <1>3, <1>5, <1>13
  <2>2. AmountIn(w, a) = 0 /\ AmountIn(Both(f, g), a) = stake /\ stake \in Nat
    BY <1>5, <1>8, <1>9, <1>11, <1>13
  <2> HIDE DEF stake, f, g, w
  <2>3. MoneyMoves(a, 0 - stake, 0)
    BY <1>1, <1>4, <1>10, <2>2, MovesByPostings
  <2>4. 0 - stake = -stake
    BY <2>2
  <2>5. MoneyMoves(a, -stake, 0)
    BY <2>3, <2>4
  <2> QED
    BY <1>5, <1>13, <2>1, <2>5 DEF AccaTurns, SameStake, stake
<1>14. CASE a \notin won /\ a \notin cancelled
  <2>1. AmountIn(w, a) = 0 /\ AmountIn(Both(f, g), a) = 0
    BY <1>8, <1>9, <1>14
  <2> HIDE DEF f, g, w
  <2>2. MoneyMoves(a, 0 - 0, 0)
    BY <1>1, <1>4, <1>10, <2>1, MovesByPostings
  <2>3. MoneyMoves(a, 0, 0)
    BY <2>2
  <2> HIDE DEF row
  <2>4. CASE a \in lost
    <3>1. acca'[a].status = "LOST" /\ acca'[a].stake = acca[a].stake
      BY <1>2, <1>3, <2>4
    <3> QED
      BY <1>5, <2>3, <2>4, <3>1 DEF AccaTurns, SameStake
  <2>5. CASE a \notin lost
    <3>1. acca'[a].status = acca[a].status /\ acca'[a].stake = acca[a].stake
          /\ acca'[a].payout = acca[a].payout
      BY <1>2, <1>3, <1>14, <2>5
    <3> QED
      BY <2>3, <3>1 DEF AccaTurns, SameStake
  <2> QED
    BY <2>4, <2>5
<1> QED
  BY <1>12, <1>13, <1>14

\* uncancel
LEMMA UncancelTurns ==
  ASSUME TypeOK, NEW h \in Handlers, CommitUncancel(h), LegHolds(h), NEW a \in Accas,
         RowSound(a)
  PROVE  AccaTurns(a) \/ TurnsAgain(a)
<1> DEFINE e == req[h].event
           view == req[h].view
           f == StakesOf(e, "REFUNDED")
           g == AccaRestoreStakes(view, e)
           row == MoveLeg(acca[a], e, "REFUNDED", "PENDING")
           reopened == Reopened(view, e)
           repriced == Repriced(view, e)
           stake == acca[a].stake
<1>1. /\ WalletsTypeOK /\ acca[a] \in AccaRow /\ a \in Bets
      /\ e \in Events /\ view \in AccaTable
  BY RequestFields, AccaNumbers DEF CommitUncancel, TypeOK, AccasTypeOK
<1>2. /\ row.status = acca[a].status /\ row.stake = acca[a].stake
      /\ row.payout = acca[a].payout
      /\ {"status", "stake", "potential", "payout", "legs"} \subseteq DOMAIN row
  BY <1>1, MoveLegLegs
<1>3. acca'[a] = IF a \in reopened
                 THEN [row EXCEPT !.status = "PENDING", !.payout = 0,
                                  !.potential = PotentialWith(view[a], e)]
                 ELSE IF a \in repriced
                 THEN [row EXCEPT !.potential = PotentialWith(view[a], e)]
                 ELSE row
  BY DEF CommitUncancel, RestoredAccas
<1>4. PostTokens(NoGrant, Both(f, g), NoRows, OwnerNow) /\ UNCHANGED pointsLedger
  BY DEF CommitUncancel, NoPoints
<1>5. a \in reopened => acca[a].status # "ABSENT" /\ view[a].stake = acca[a].stake
  BY <1>1 DEF Reopened, Affected, LegHolds, RowSound
<1>6. DOMAIN f \subseteq Preds
  BY DEF StakesOf, OnEvent
<1>7. AmountIn(g, a) = IF a \in reopened THEN view[a].stake ELSE 0
  BY DEF AmountIn, AccaRestoreStakes
<1>8. AmountIn(Both(f, g), a) = IF a \in reopened THEN stake ELSE 0
  BY <1>5, <1>6, <1>7, PredRowsApart
<1>9. AmountIn(NoRows, a) = 0
  BY NoRowsAmount
<1>10. stake \in Nat
  BY <1>1, StakesNat DEF AccaRow
<1> HIDE DEF row
<1>11. CASE a \in reopened
  <2>1. acca'[a].status = "PENDING" /\ acca'[a].stake = stake
    BY <1>2, <1>3, <1>11
  <2>2. AmountIn(Both(f, g), a) = stake
    BY <1>8, <1>11
  <2> HIDE DEF stake, f, g
  <2>3. MoneyMoves(a, stake - 0, 0)
    BY <1>1, <1>4, <1>9, <1>10, <2>2, MovesByPostings
  <2>4. MoneyMoves(a, stake, 0)
    BY <1>10, <2>3
  <2>5. CASE acca[a].status = "CANCELLED"
    BY <2>1, <2>4, <2>5 DEF AccaTurns, SameStake, stake
  <2>6. CASE acca[a].status # "CANCELLED"
    <3>1. req[h].op = "uncancel" /\ req'[h] = Idle
      BY DEF CommitUncancel, Finish, TypeOK
    <3>2. ReopensAgain(a)
      BY <1>11, <2>6, <3>1 DEF ReopensAgain, Reopened, Affected
    <3> QED
      BY <1>5, <1>11, <2>1, <3>2 DEF TurnsAgain, SameStake, stake
  <2> QED
    BY <2>5, <2>6
<1>12. CASE a \notin reopened
  <2>1. AmountIn(Both(f, g), a) = 0
    BY <1>8, <1>12
  <2>2. /\ acca'[a].status = acca[a].status /\ acca'[a].stake = acca[a].stake
        /\ acca'[a].payout = acca[a].payout
    BY <1>2, <1>3, <1>12
  <2> HIDE DEF f, g
  <2>3. MoneyMoves(a, 0 - 0, 0)
    BY <1>1, <1>4, <1>9, <2>1, MovesByPostings
  <2> QED
    BY <2>2, <2>3 DEF AccaTurns, SameStake
<1> QED
  BY <1>11, <1>12

\* deleteOldFinishedEvents
LEMMA DeleteTurns ==
  ASSUME TypeOK, NEW h \in Handlers, CommitDelete(h), NEW a \in Accas
  PROVE  AccaTurns(a)
<1> DEFINE S == req[h].events
           legs == [e \in Events |-> IF e \in S /\ acca[a].legs[e].status # "NONE"
                                     THEN [acca[a].legs[e] EXCEPT !.status = "DELETED"]
                                     ELSE acca[a].legs[e]]
           row == [acca[a] EXCEPT !.legs = legs]
<1>1. WalletsTypeOK /\ acca[a] \in AccaRow
  BY DEF TypeOK, AccasTypeOK
<1>2. acca'[a] = IF acca[a].status \notin {"ABSENT", "DELETED"} /\ LiveLegs(row) = {}
                 THEN [row EXCEPT !.status = "DELETED"] ELSE row
  BY <1>1 DEF CommitDelete, PurgedAccas, AccaRow
<1>3. /\ row.status = acca[a].status /\ row.stake = acca[a].stake /\ row.payout = acca[a].payout
      /\ {"status", "stake", "payout", "legs"} \subseteq DOMAIN row
  BY <1>1 DEF AccaRow
<1>4. MoneyMoves(a, 0, 0)
  <2>1. UNCHANGED <<tokenLedger, pointsLedger>>
    BY DEF CommitDelete, walletVars
  <2>2. MoneyMoves(a, 0 - 0, 0)
    BY <1>1, <2>1, MovesByPostings
  <2> QED
    BY <2>2
<1>5. LiveLegs([row EXCEPT !.status = "DELETED"]) = LiveLegs(row)
  <2>1. [row EXCEPT !.status = "DELETED"].legs = row.legs
    BY <1>3
  <2> QED
    BY <2>1 DEF LiveLegs, LegsIn
<1> HIDE DEF row
<1> QED
  BY <1>2, <1>3, <1>4, <1>5 DEF AccaTurns, SameStake

\* place, cashout, and the placing of an accumulator
LEMMA BettorTurns ==
  ASSUME TypeOK, NEW h \in Handlers, NEW a \in Accas,
         \/ \E p \in Preds, accrual \in Accruals : CommitPlace(h, p, accrual)
         \/ \E q \in Prices : CommitCashout(h, q)
         \/ \E a0 \in Accas, accrual \in Accruals : CommitAccumulate(h, a0, accrual)
  PROVE  AccaTurns(a)
<1>1. /\ WalletsTypeOK /\ AccasTypeOK /\ a \in Bets /\ a \notin Preds /\ req[h] \in Requests
  BY AccaNumbers DEF TypeOK
<1>2. AmountIn(NoRows, a) = 0
  BY NoRowsAmount
<1>3. ASSUME acca'[a] = acca[a], MoneyMoves(a, 0 - 0, 0)
      PROVE  AccaTurns(a)
  BY <1>3 DEF AccaTurns, SameStake
<1>4. ASSUME NEW p \in Preds, NEW accrual \in Accruals, CommitPlace(h, p, accrual)
      PROVE  AccaTurns(a)
  <2> DEFINE grant == [NoGrant EXCEPT ![req[h].user] = accrual]
             debits == [b \in {p} |-> req[h].stake]
             owner == [OwnerNow EXCEPT ![p] = req[h].user]
  <2>1. PostTokens(grant, debits, NoRows, owner) /\ UNCHANGED <<acca, pointsLedger>>
    BY <1>4 DEF CommitPlace, NoPoints
  <2>2. AmountIn(debits, a) = 0
    BY <1>1 DEF AmountIn
  <2> HIDE DEF debits, owner, grant
  <2>3. MoneyMoves(a, 0 - 0, 0)
    BY <1>1, <1>2, <2>1, <2>2, MovesByPostings
  <2> QED
    BY <1>3, <2>1, <2>3
<1>5. ASSUME NEW q \in Prices, CommitCashout(h, q)
      PROVE  AccaTurns(a)
  <2> DEFINE cashouts == [b \in {req[h].pred} |-> ValueOf(req[h].pred, q)]
  <2>1. PostPoints(NoRows, cashouts, OwnerNow) /\ UNCHANGED <<acca, tokenLedger>>
    BY <1>5 DEF CommitCashout, NoTokens
  <2>2. req[h].pred \in Preds
    BY <1>1, <1>5, RequestFields DEF CommitCashout
  <2>3. AmountIn(cashouts, a) = 0
    BY <1>1, <2>2 DEF AmountIn
  <2> HIDE DEF cashouts
  <2>4. MoneyMoves(a, 0 - 0, 0)
    BY <1>1, <1>2, <2>1, <2>3, MovesByPostings
  <2> QED
    BY <1>3, <2>1, <2>4
<1>6. ASSUME NEW a0 \in Accas, NEW accrual \in Accruals, CommitAccumulate(h, a0, accrual)
      PROVE  AccaTurns(a)
  <2> DEFINE grant == [NoGrant EXCEPT ![req[h].user] = accrual]
             stake == req[h].stake
             debits == [b \in {a0} |-> stake]
             owner == [OwnerNow EXCEPT ![a0] = req[h].user]
  <2>1. PostTokens(grant, debits, NoRows, owner) /\ UNCHANGED pointsLedger
    BY <1>6 DEF CommitAccumulate, NoPoints
  <2>2. stake \in Nat /\ stake > 0
    <3>1. stake \in Stakes
      BY <1>1, <1>6, RequestFields DEF CommitAccumulate
    <3>2. \A s \in Stakes : s \in Nat /\ s > 0
      BY PricingAssumption
    <3> QED
      BY <3>1, <3>2
  <2>3. acca' = [acca EXCEPT ![a0] = NewAcca(req[h].user, stake, req[h].legs)]
        /\ acca[a0].status = "ABSENT"
    BY <1>6 DEF CommitAccumulate
  <2>4. CASE a # a0
    <3>1. AmountIn(debits, a) = 0
      BY <2>4 DEF AmountIn
    <3>2. acca'[a] = acca[a]
      BY <1>1, <2>3, <2>4 DEF AccasTypeOK
    <3> HIDE DEF debits, owner, grant
    <3>3. MoneyMoves(a, 0 - 0, 0)
      BY <1>1, <1>2, <2>1, <3>1, MovesByPostings
    <3> QED
      BY <1>3, <3>2, <3>3
  <2>5. CASE a = a0
    <3>1. AmountIn(debits, a) = stake
      BY <2>5 DEF AmountIn
    <3>2. acca'[a].status = "PENDING" /\ acca'[a].stake = stake
      BY <1>1, <2>3, <2>5 DEF AccasTypeOK, NewAcca
    <3> HIDE DEF debits, owner, grant, stake
    <3>3. MoneyMoves(a, stake - 0, 0)
      BY <1>1, <1>2, <2>1, <2>2, <3>1, MovesByPostings
    <3>4. MoneyMoves(a, stake, 0)
      BY <2>2, <3>3
    <3> QED
      BY <2>2, <2>3, <2>5, <3>2, <3>4 DEF AccaTurns
  <2> QED
    BY <2>4, <2>5
<1> QED
  BY <1>4, <1>5, <1>6

\* Every commit turns every accumulator in one of these ways.
LEMMA CommitTurns ==
  ASSUME TypeOK, AccasSound, NEW h \in Handlers, Commits(h), NEW a \in Accas
  PROVE  AccaTurns(a) \/ TurnsAgain(a)
<1>1. CASE CommitCancel(h) \/ CommitUncancel(h)
  <2>1. LegHolds(h) /\ RowSound(a)
    BY <1>1 DEF AccasSound, LegsHold, RunsAdmin, CommitCancel, CommitUncancel
  <2> QED
    BY <1>1, <2>1, CancelTurns, UncancelTurns
<1>2. ASSUME NEW bonus \in [Users -> Bonuses], CommitSettle(h, bonus)
      PROVE  AccaTurns(a)
  BY <1>2, SettleTurns
<1> QED
  BY <1>1, <1>2, DeleteTurns, BettorTurns DEF Commits

-----------------------------------------------------------------------------
(* The legs, and what is read of them *)

\* The leg on e moves from one status to another; the prices stay, and the other legs.
LegMoves(a, e, from, to) ==
  \A f \in Events :
    /\ acca'[a].legs[f].price = acca[a].legs[f].price
    /\ acca'[a].legs[f].status =
         IF f = e /\ acca[a].legs[e].status = from THEN to ELSE acca[a].legs[f].status

\* The legs on the events of S go.
LegsGo(a, S) ==
  \A f \in Events :
    acca'[a].legs[f].status =
      IF f \in S /\ acca[a].legs[f].status # "NONE" THEN "DELETED" ELSE acca[a].legs[f].status

\* What the commits do to the legs of an accumulator.
LEMMA CommitLegs ==
  ASSUME TypeOK, NEW h \in Handlers, NEW a \in Accas
  PROVE  LET e == req[h].event
         IN  /\ \A bonus : CommitSettle(h, bonus) =>
                  LegMoves(a, e, "PENDING", LegVerdict(acca[a], e, req[h].outcome))
             /\ CommitCancel(h) => LegMoves(a, e, "PENDING", "REFUNDED")
             /\ CommitUncancel(h) => LegMoves(a, e, "REFUNDED", "PENDING")
             /\ CommitDelete(h) => LegsGo(a, req[h].events)
<1> DEFINE e == req[h].event
           n == req[h].outcome
           view == req[h].view
<1>1. acca[a] \in AccaRow /\ req[h] \in Requests
  BY DEF TypeOK, AccasTypeOK
<1>2. ASSUME NEW bonus, CommitSettle(h, bonus)
      PROVE  LegMoves(a, e, "PENDING", LegVerdict(acca[a], e, n))
  <2> DEFINE verdict == LegVerdict(acca[a], e, n)
             row == MoveLeg(acca[a], e, "PENDING", verdict)
  <2>1. e \in Events
    BY <1>1, <1>2, RequestFields DEF CommitSettle
  <2>2. /\ {"status", "stake", "potential", "payout", "legs"} \subseteq DOMAIN row
        /\ \A f \in Events :
             /\ row.legs[f].price = acca[a].legs[f].price
             /\ row.legs[f].status =
                  IF f = e /\ acca[a].legs[e].status = "PENDING" THEN verdict
                  ELSE acca[a].legs[f].status
    BY <1>1, <2>1, MoveLegLegs
  <2>3. acca'[a].legs = row.legs
    <3>1. acca'[a] = IF a \in MarkedBySettle(view, e, n, "WON")
                     THEN [row EXCEPT !.status = "WON", !.payout = view[a].potential]
                     ELSE IF a \in MarkedBySettle(view, e, n, "LOST")
                     THEN [row EXCEPT !.status = "LOST", !.payout = 0]
                     ELSE row
      BY <1>2 DEF CommitSettle, SettledAccas
    <3> HIDE DEF row
    <3> QED
      BY <2>2, <3>1
  <2> HIDE DEF row, verdict
  <2> QED
    BY <2>2, <2>3 DEF LegMoves, verdict
<1>3. ASSUME CommitCancel(h)
      PROVE  LegMoves(a, e, "PENDING", "REFUNDED")
  <2> DEFINE row == MoveLeg(acca[a], e, "PENDING", "REFUNDED")
             repriced == [row EXCEPT !.potential = PotentialWithout(view[a], e)]
  <2>1. e \in Events
    BY <1>1, <1>3, RequestFields DEF CommitCancel
  <2>2. /\ {"status", "stake", "potential", "payout", "legs"} \subseteq DOMAIN row
        /\ \A f \in Events :
             /\ row.legs[f].price = acca[a].legs[f].price
             /\ row.legs[f].status =
                  IF f = e /\ acca[a].legs[e].status = "PENDING" THEN "REFUNDED"
                  ELSE acca[a].legs[f].status
    BY <1>1, <2>1, MoveLegLegs
  <2>3. acca'[a].legs = row.legs
    <3>1. acca'[a] = IF a \in MarkedByCancel(view, e, "LOST")
                     THEN [row EXCEPT !.status = "LOST", !.payout = 0]
                     ELSE IF a \in MarkedByCancel(view, e, "CANCELLED")
                     THEN [row EXCEPT !.status = "CANCELLED", !.payout = 0]
                     ELSE IF a \in MarkedByCancel(view, e, "WON")
                     THEN [repriced EXCEPT !.status = "WON", !.payout = repriced.potential]
                     ELSE IF a \in MarkedByCancel(view, e, "PENDING") THEN repriced
                     ELSE row
      BY <1>3 DEF CommitCancel, CancelledAccas
    <3> HIDE DEF row
    <3> QED
      BY <2>2, <3>1
  <2> HIDE DEF row
  <2> QED
    BY <2>2, <2>3 DEF LegMoves
<1>4. ASSUME CommitUncancel(h)
      PROVE  LegMoves(a, e, "REFUNDED", "PENDING")
  <2> DEFINE row == MoveLeg(acca[a], e, "REFUNDED", "PENDING")
  <2>1. e \in Events
    BY <1>1, <1>4, RequestFields DEF CommitUncancel
  <2>2. /\ {"status", "stake", "potential", "payout", "legs"} \subseteq DOMAIN row
        /\ \A f \in Events :
             /\ row.legs[f].price = acca[a].legs[f].price
             /\ row.legs[f].status =
                  IF f = e /\ acca[a].legs[e].status = "REFUNDED" THEN "PENDING"
                  ELSE acca[a].legs[f].status
    BY <1>1, <2>1, MoveLegLegs
  <2>3. acca'[a].legs = row.legs
    <3>1. acca'[a] = IF a \in Reopened(view, e)
                     THEN [row EXCEPT !.status = "PENDING", !.payout = 0,
                                      !.potential = PotentialWith(view[a], e)]
                     ELSE IF a \in Repriced(view, e)
                     THEN [row EXCEPT !.potential = PotentialWith(view[a], e)]
                     ELSE row
      BY <1>4 DEF CommitUncancel, RestoredAccas
    <3> HIDE DEF row
    <3> QED
      BY <2>2, <3>1
  <2> HIDE DEF row
  <2> QED
    BY <2>2, <2>3 DEF LegMoves
<1>5. ASSUME CommitDelete(h)
      PROVE  LegsGo(a, req[h].events)
  <2> DEFINE S == req[h].events
             legs == [f \in Events |-> IF f \in S /\ acca[a].legs[f].status # "NONE"
                                       THEN [acca[a].legs[f] EXCEPT !.status = "DELETED"]
                                       ELSE acca[a].legs[f]]
             row == [acca[a] EXCEPT !.legs = legs]
  <2>1. acca'[a] = IF acca[a].status \notin {"ABSENT", "DELETED"} /\ LiveLegs(row) = {}
                   THEN [row EXCEPT !.status = "DELETED"] ELSE row
    BY <1>1, <1>5 DEF CommitDelete, PurgedAccas, AccaRow
  <2>2. row.legs = legs /\ {"status", "legs"} \subseteq DOMAIN row
    BY <1>1 DEF AccaRow
  <2>3. acca'[a].legs = legs
    <3> HIDE DEF row, legs
    <3> QED
      BY <2>1, <2>2
  <2>4. \A f \in Events : acca[a].legs[f] \in Leg
    BY <1>1 DEF AccaRow
  <2>5. \A f \in Events :
          legs[f].status = IF f \in S /\ acca[a].legs[f].status # "NONE" THEN "DELETED"
                           ELSE acca[a].legs[f].status
    BY <2>4 DEF Leg
  <2> QED
    BY <2>3, <2>5 DEF LegsGo
<1> QED
  BY <1>2, <1>3, <1>4, <1>5

\* A commit moves legs from one status to another, but for the accumulator that it places.
LEMMA LegsOfGone ==
  ASSUME TypeOK, NEW h \in Handlers, Commits(h), NEW a \in Accas,
         \A accrual \in Accruals : ~CommitAccumulate(h, a, accrual), NEW f \in Events
  PROVE  /\ acca[a].legs[f].status = "NONE" => acca'[a].legs[f].status = "NONE"
         /\ acca[a].legs[f].status = "DELETED" => acca'[a].legs[f].status = "DELETED"
<1>1. ASSUME NEW from \in {"PENDING", "REFUNDED"}, NEW e, NEW to, LegMoves(a, e, from, to)
      PROVE  /\ acca[a].legs[f].status = "NONE" => acca'[a].legs[f].status = "NONE"
             /\ acca[a].legs[f].status = "DELETED" => acca'[a].legs[f].status = "DELETED"
  BY <1>1 DEF LegMoves
<1>2. CASE \/ \E bonus \in [Users -> Bonuses] : CommitSettle(h, bonus)
           \/ CommitCancel(h) \/ CommitUncancel(h)
  BY <1>1, <1>2, CommitLegs
<1>3. CASE CommitDelete(h)
  BY <1>3, CommitLegs DEF LegsGo
<1>4. CASE \/ \E p \in Preds, accrual \in Accruals : CommitPlace(h, p, accrual)
           \/ \E q \in Prices : CommitCashout(h, q)
  BY <1>4 DEF CommitPlace, CommitCashout
<1>5. ASSUME NEW a0 \in Accas, NEW accrual \in Accruals, CommitAccumulate(h, a0, accrual)
      PROVE  acca'[a] = acca[a]
  BY <1>5 DEF CommitAccumulate, TypeOK, AccasTypeOK
<1> QED
  BY <1>2, <1>3, <1>4, <1>5 DEF Commits

\* Every commit keeps the rows sound.
LEMMA RowsStaySound ==
  ASSUME TypeOK, AccasSound, NEW h \in Handlers, Commits(h), NEW a \in Accas
  PROVE  RowSound(a)'
<1>1. RowSound(a)
  BY DEF AccasSound
<1>2. ASSUME NEW accrual \in Accruals, CommitAccumulate(h, a, accrual)
      PROVE  RowSound(a)'
  <2>1. acca'[a].status = "PENDING" /\ acca'[a].stake = req[h].stake
    BY <1>2 DEF CommitAccumulate, NewAcca, TypeOK, AccasTypeOK
  <2>2. req[h].stake \in Stakes
    BY <1>2, RequestFields DEF CommitAccumulate, TypeOK
  <2>3. \A s \in Stakes : s > 0
    BY PricingAssumption
  <2> QED
    BY <2>1, <2>2, <2>3 DEF RowSound
<1>3. CASE \A accrual \in Accruals : ~CommitAccumulate(h, a, accrual)
  <2>1. \A f \in Events :
          /\ acca[a].legs[f].status = "NONE" => acca'[a].legs[f].status = "NONE"
          /\ acca[a].legs[f].status = "DELETED" => acca'[a].legs[f].status = "DELETED"
    BY <1>3, LegsOfGone
  <2>2. AccaTurns(a) \/ TurnsAgain(a)
    BY CommitTurns
  <2>3. acca'[a].status = "ABSENT" => acca[a].status = "ABSENT"
    BY <2>2 DEF AccaTurns, TurnsAgain
  <2>4. acca'[a].status = "DELETED" => acca[a].status = "DELETED" \/ LiveLegs(acca'[a]) = {}
    BY <2>2 DEF AccaTurns, TurnsAgain
  <2>5. acca'[a].status # "ABSENT" => acca'[a].stake > 0
    BY <1>1, <2>2 DEF AccaTurns, TurnsAgain, RowSound, SameStake
  <2>6. ASSUME NEW f \in Events, LiveLegs(acca'[a]) = {}
        PROVE  acca'[a].legs[f].status \in {"NONE", "DELETED"}
    <3>1. acca'[a].legs[f].status \in LegStatus
      <4>1. TypeOK'
        BY NextType DEF Next, Commits, Admin, Bettor, Cleaner
      <4> QED
        BY <4>1 DEF TypeOK, AccasTypeOK, AccaRow, Leg
    <3> QED
      BY <2>6, <3>1 DEF LiveLegs, LegsIn
  <2> QED
    BY <1>1, <2>1, <2>3, <2>4, <2>5, <2>6 DEF RowSound
<1> QED
  BY <1>2, <1>3

\* Requests that have locked events commit apart from each other.
LEMMA LocksStayApart ==
  ASSUME TypeOK, LocksApart, [Next]_vars
  PROVE  LocksApart'
<1>1. ASSUME NEW h \in Handlers, NEW r, Ask(h, r),
             r.op \in {"settle", "cancel", "uncancel"} => ~RowLocked(r.event)
      PROVE  LocksApart'
  <2>1. req[h] = Idle /\ req'[h] = r /\ \A g \in Handlers : g # h => req'[g] = req[g]
    BY <1>1 DEF Ask, TypeOK
  <2>2. ASSUME NEW g \in Handlers, g # h, RunsAdmin(g)', RunsAdmin(h)'
        PROVE  req'[g].event # req'[h].event
    <3>1. ~RowLocked(r.event)
      BY <1>1, <2>1, <2>2 DEF RunsAdmin
    <3>2. RowLocked(req[g].event)
      BY <2>1, <2>2 DEF RowLocked, RunsAdmin
    <3> QED
      BY <2>1, <2>2, <3>1, <3>2
  <2>3. \A g \in Handlers : g # h => (RunsAdmin(g)' <=> RunsAdmin(g))
    BY <2>1 DEF RunsAdmin
  <2> QED
    BY <2>1, <2>2, <2>3 DEF LocksApart
<1>2. ASSUME NEW h \in Handlers, Finish(h)
      PROVE  LocksApart'
  <2>1. req'[h] = Idle /\ \A g \in Handlers : g # h => req'[g] = req[g]
    BY <1>2 DEF Finish, TypeOK
  <2> QED
    BY <2>1 DEF LocksApart, RunsAdmin, Idle
<1>3. CASE UNCHANGED req
  BY <1>3 DEF LocksApart, RunsAdmin
<1>4. ASSUME NEW h \in Handlers, NEW e \in Events,
             \/ ReadForLock(h, e) \/ BeginCancel(h, e) \/ BeginUncancel(h, e)
             \/ \E n \in Names : BeginSettle(h, e, n)
             \/ \E o \in OutcomeLists, k \in 1 .. MaxTime : ReadForUpdate(h, e, o, k)
      PROVE  LocksApart'
  <2>1. CASE ReadForLock(h, e)
    BY <1>1, <2>1 DEF ReadForLock
  <2>2. CASE BeginCancel(h, e)
    BY <1>1, <2>2 DEF BeginCancel, Writable
  <2>3. CASE BeginUncancel(h, e)
    BY <1>1, <2>3 DEF BeginUncancel, Writable
  <2>4. ASSUME NEW n \in Names, BeginSettle(h, e, n)
        PROVE  LocksApart'
    BY <1>1, <2>4 DEF BeginSettle, Writable
  <2>5. ASSUME NEW o \in OutcomeLists, NEW k \in 1 .. MaxTime, ReadForUpdate(h, e, o, k)
        PROVE  LocksApart'
    BY <1>1, <2>5 DEF ReadForUpdate
  <2> QED
    BY <1>4, <2>1, <2>2, <2>3, <2>4, <2>5
<1>5. ASSUME NEW h \in Handlers,
             \/ \E u \in Users, e \in Events, n \in Names, s \in Stakes, q \in Prices :
                  ReadForPlace(h, u, e, n, s, q)
             \/ \E p \in Preds, q \in Prices : ReadForCashout(h, p, q)
             \/ \E u \in Users, s \in Stakes, l \in [Events -> LegChoices] :
                  ReadForAccumulate(h, u, s, l)
             \/ ReadForDelete(h)
      PROVE  LocksApart'
  BY <1>1, <1>5 DEF ReadForPlace, ReadForCashout, ReadForAccumulate, ReadForDelete
<1>6. ASSUME NEW h \in Handlers, Commits(h) \/ WriteLock(h) \/ WriteUpdate(h) \/ Abort(h)
      PROVE  LocksApart'
  BY <1>2, <1>6, CommitEnds DEF WriteLock, WriteUpdate, Abort
<1>7. ASSUME NEW h \in Handlers, Admin(h) \/ Bettor(h) \/ Cleaner(h) \/ Abort(h)
      PROVE  LocksApart'
  BY <1>4, <1>5, <1>6, <1>7 DEF Admin, Bettor, Cleaner, Commits
<1> QED
  <2>1. CASE UNCHANGED vars \/ Tick \/ AutoLock
    BY <1>3, <2>1 DEF vars, Tick, AutoLock
  <2>2. ASSUME NEW e \in Events, NEW o, NEW k, Create(e, o, k)
        PROVE  LocksApart'
    BY <1>3, <2>2 DEF Create
  <2> QED
    BY <1>7, <2>1, <2>2 DEF Next

\* A request that has locked its event keeps the legs on it while others commit.
LEMMA LegStaysAsRead ==
  ASSUME TypeOK, AccasSound, NEW h \in Handlers, Commits(h), NEW g \in Handlers, g # h,
         RunsAdmin(g), req'[g] = req[g]
  PROVE  LegHolds(g)'
<1> DEFINE view == req[g].view
           e == req[g].event
<1>1. LegHolds(g) /\ e \in Events /\ RowLocked(e)
  BY RequestFields DEF AccasSound, LegsHold, RunsAdmin, RowLocked, TypeOK
<1>2. req'[g].view = view /\ req'[g].event = e
  OBVIOUS
<1>3. ASSUME NEW a \in Accas, acca'[a].legs[e].status = acca[a].legs[e].status
      PROVE  /\ acca'[a].legs[e].status = view[a].legs[e].status
             /\ view[a].legs[e].status # "NONE" => acca'[a].stake = view[a].stake
  <2>1. /\ acca[a].legs[e].status = view[a].legs[e].status
        /\ view[a].legs[e].status # "NONE" => acca[a].stake = view[a].stake
    BY <1>1 DEF LegHolds
  <2>2. acca[a].legs[e].status # "NONE" => acca[a].status # "ABSENT"
    BY <1>1 DEF AccasSound, RowSound
  <2>3. acca[a].status # "ABSENT" => SameStake(a)
    BY CommitTurns DEF AccaTurns, TurnsAgain
  <2> QED
    BY <1>3, <2>1, <2>2, <2>3 DEF SameStake
<1>4. ASSUME \A a \in Accas : acca'[a].legs[e].status = acca[a].legs[e].status
      PROVE  LegHolds(g)'
  BY <1>2, <1>3, <1>4 DEF LegHolds
<1>5. CASE RunsAdmin(h)
  <2>1. req[h].event # e
    BY <1>5 DEF AccasSound, LocksApart
  <2>2. ASSUME NEW a \in Accas, NEW from, NEW to, LegMoves(a, req[h].event, from, to)
        PROVE  acca'[a].legs[e].status = acca[a].legs[e].status
    BY <1>1, <2>1, <2>2 DEF LegMoves
  <2>3. \/ \E bonus \in [Users -> Bonuses] : CommitSettle(h, bonus)
        \/ CommitCancel(h) \/ CommitUncancel(h)
    BY <1>5 DEF Commits, RunsAdmin, CommitPlace, CommitCashout, CommitAccumulate, CommitDelete
  <2>4. \A a \in Accas : acca'[a].legs[e].status = acca[a].legs[e].status
    BY <2>2, <2>3, CommitLegs
  <2> QED
    BY <1>4, <2>4
<1>6. CASE \/ \E p \in Preds, accrual \in Accruals : CommitPlace(h, p, accrual)
           \/ \E q \in Prices : CommitCashout(h, q)
  BY <1>4, <1>6 DEF CommitPlace, CommitCashout
<1>7. ASSUME NEW a \in Accas, NEW accrual \in Accruals, CommitAccumulate(h, a, accrual)
      PROVE  LegHolds(g)'
  <2> DEFINE legs == req[h].legs
  <2>1. acca' = [acca EXCEPT ![a] = NewAcca(req[h].user, req[h].stake, legs)]
    BY <1>7 DEF CommitAccumulate
  <2>2. legs[e].status = "NONE"
    <3>1. e \notin LegsChosen(legs)
      BY <1>1, <1>7 DEF CommitAccumulate, Writable
    <3>2. legs[e] \in LegChoices
      BY <1>1, <1>7 DEF AccasSound, Sensible, CommitAccumulate
    <3> QED
      BY <1>1, <3>1, <3>2 DEF LegsChosen, LegChoices, NoLeg
  <2>3. acca[a].legs[e].status = "NONE"
    BY <1>1, <1>7 DEF CommitAccumulate, AccasSound, RowSound
  <2>4. acca'[a].legs[e].status = "NONE"
    BY <2>1, <2>2 DEF NewAcca, TypeOK, AccasTypeOK
  <2>5. \A x \in Accas : x # a => acca'[x] = acca[x]
    BY <2>1 DEF TypeOK, AccasTypeOK
  <2> QED
    BY <1>4, <2>3, <2>4, <2>5
<1>8. CASE CommitDelete(h)
  <2>1. e \notin req[h].events
    BY <1>1, <1>8 DEF CommitDelete
  <2>2. \A a \in Accas : acca'[a].legs[e].status = acca[a].legs[e].status
    BY <1>1, <1>8, <2>1, CommitLegs DEF LegsGo
  <2> QED
    BY <1>4, <2>2
<1> QED
  BY <1>5, <1>6, <1>7, <1>8
     DEF Commits, RunsAdmin, CommitSettle, CommitCancel, CommitUncancel

\* Every step keeps rows, requests, locks and what was read under them sound.
LEMMA AccasStaySound ==
  ASSUME TypeOK, AccasSound, [Next]_vars
  PROVE  AccasSound'
<1>1. ASSUME NEW h \in Handlers, Commits(h)
      PROVE  AccasSound'
  <2>1. \A a \in Accas : RowSound(a)'
    BY <1>1, RowsStaySound
  <2>2. Finish(h)
    BY <1>1, CommitEnds
  <2>3. \A g \in Handlers : Sensible(req'[g])
    BY <2>2 DEF Finish, TypeOK, AccasSound, Sensible, Idle
  <2>4. ASSUME NEW g \in Handlers, RunsAdmin(g)'
        PROVE  LegHolds(g)'
    <3>1. req'[g] = req[g] /\ RunsAdmin(g) /\ g # h
      BY <1>1, <2>4, CommitEnds
    <3> QED
      BY <1>1, <3>1, LegStaysAsRead
  <2> QED
    BY <2>1, <2>3, <2>4, LocksStayApart DEF AccasSound, LegsHold
<1>2. CASE \A h \in Handlers : ~Commits(h)
  <2>1. StillStep
    BY <1>2, Quiet
  <2>2. acca' = acca
    BY <2>1 DEF StillStep
  <2>3. \A g \in Handlers : Sensible(req'[g])
    BY <2>1 DEF StillStep, AccasSound
  <2>4. ASSUME NEW g \in Handlers, RunsAdmin(g)'
        PROVE  LegHolds(g)'
    <3>1. CASE req'[g] = req[g]
      BY <2>2, <2>4, <3>1 DEF AccasSound, LegsHold, LegHolds, RunsAdmin
    <3>2. CASE req'[g].view = acca
      BY <2>2, <3>2 DEF LegHolds
    <3> QED
      BY <2>1, <2>4, <3>1, <3>2 DEF StillStep
  <2>5. \A a \in Accas : RowSound(a)'
    BY <2>2 DEF AccasSound, RowSound
  <2> QED
    BY <2>3, <2>4, <2>5, LocksStayApart DEF AccasSound, LegsHold
<1> QED
  BY <1>1, <1>2

\* No accumulator has a leg to start with, and nothing is held or paid for it.
LEMMA AccasStartSound ==
  ASSUME Init
  PROVE  AccasSound /\ \A a \in Accas : AccaMoney(a) /\ MatchesLegs(acca[a])
<1>1. \A a \in Accas : RowSound(a)
  BY DEF Init, RowSound, NoAcca, NoLeg
<1>2. \A h \in Handlers : Sensible(req[h])
  BY DEF Init, Sensible, Idle
<1>3. LegsHold /\ LocksApart
  BY DEF Init, LegsHold, LocksApart, RunsAdmin, Idle
<1>4. \A a \in Accas : AccaMoney(a)
  BY DEF Init, AccaMoney, NoAcca, HeldFor, PaidFor, Bets
<1>5. \A a \in Accas : MatchesLegs(acca[a])
  BY DEF Init, NoAcca, MatchesLegs
<1> QED
  BY <1>1, <1>2, <1>3, <1>4, <1>5 DEF AccasSound

\* Rows, requests and locks are sound throughout.
LEMMA AccasAlwaysSound == Spec => []AccasSound
<1>1. Init => AccasSound
  BY AccasStartSound
<1>2. TypeOK /\ AccasSound /\ [Next]_vars => AccasSound'
  BY AccasStaySound
<1> QED
  BY <1>1, <1>2, TypeCorrect, PTL DEF Spec

-----------------------------------------------------------------------------
(* Paid once, and the refinement of Bet *)

\* The amounts of an accumulator, before and after a step.
LEMMA AccaAmounts ==
  ASSUME TypeOK, TypeOK', NEW a \in Accas
  PROVE  /\ HeldFor(a) \in Int /\ PaidFor(a) \in Nat
         /\ acca[a].stake \in Nat /\ acca'[a].stake \in Nat
         /\ acca[a].payout \in Nat /\ acca'[a].payout \in Nat
         /\ acca[a].status \in AccaStatus /\ acca'[a].status \in AccaStatus
<1>1. HeldFor(a) \in Int /\ PaidFor(a) \in Nat
  BY AccaNumbers DEF TypeOK
<1>2. acca[a].stake \in Nat /\ acca[a].payout \in Nat /\ acca[a].status \in AccaStatus
  <2>1. acca[a] \in AccaRow
    BY DEF TypeOK, AccasTypeOK
  <2> QED
    BY <2>1, StakesNat DEF AccaRow
<1>3. acca'[a].stake \in Nat /\ acca'[a].payout \in Nat /\ acca'[a].status \in AccaStatus
  <2>1. acca'[a] \in AccaRow
    BY DEF TypeOK, AccasTypeOK
  <2> QED
    BY <2>1, StakesNat DEF AccaRow
<1> QED
  BY <1>1, <1>2, <1>3

\* The way an accumulator turns keeps its money right.
LEMMA TurnKeepsMoney ==
  ASSUME TypeOK, TypeOK', NEW a \in Accas, AccaMoney(a), AccaTurns(a)
  PROVE  AccaMoney(a)'
<1> DEFINE held == HeldFor(a)
           paid == PaidFor(a)
           heldNext == HeldFor(a)'
           paidNext == PaidFor(a)'
           from == acca[a].status
           to == acca'[a].status
           stake == acca[a].stake
           stakeNext == acca'[a].stake
           payout == acca[a].payout
           payoutNext == acca'[a].payout
<1>1. /\ held \in Int /\ paid \in Nat /\ stake \in Nat /\ stakeNext \in Nat
      /\ payout \in Nat /\ payoutNext \in Nat
  BY AccaAmounts
<1>2. /\ from \in {"ABSENT", "CANCELLED"} => held = 0
      /\ from \in {"PENDING", "WON", "LOST"} => held = stake
      /\ from = "WON" => paid = payout /\ paid > 0
      /\ from \in {"ABSENT", "PENDING", "LOST", "CANCELLED"} => paid = 0
  BY DEF AccaMoney
<1>3. \/ /\ to = from /\ stakeNext = stake /\ payoutNext = payout
         /\ heldNext = held + 0 /\ paidNext = paid + 0
      \/ /\ from = "ABSENT" /\ to = "PENDING"
         /\ heldNext = held + stakeNext /\ paidNext = paid + 0
      \/ /\ from = "PENDING" /\ to = "WON" /\ stakeNext = stake
         /\ payoutNext > 0 /\ heldNext = held + 0 /\ paidNext = paid + payoutNext
      \/ /\ from = "PENDING" /\ to = "LOST" /\ stakeNext = stake
         /\ heldNext = held + 0 /\ paidNext = paid + 0
      \/ /\ from = "PENDING" /\ to = "CANCELLED" /\ stakeNext = stake
         /\ heldNext = held + (-stake) /\ paidNext = paid + 0
      \/ /\ from = "CANCELLED" /\ to = "PENDING" /\ stakeNext = stake
         /\ heldNext = held + stake /\ paidNext = paid + 0
      \/ to = "DELETED"
  BY DEF AccaTurns, MoneyMoves, SameStake
<1> HIDE DEF held, paid, heldNext, paidNext, from, to, stake, stakeNext, payout, payoutNext
<1>4. /\ to \in {"ABSENT", "CANCELLED"} => heldNext = 0
      /\ to \in {"PENDING", "WON", "LOST"} => heldNext = stakeNext
      /\ to = "WON" => paidNext = payoutNext /\ paidNext > 0
      /\ to \in {"ABSENT", "PENDING", "LOST", "CANCELLED"} => paidNext = 0
  BY <1>1, <1>2, <1>3
<1> QED
  BY <1>4 DEF AccaMoney, heldNext, paidNext, to, stakeNext, payoutNext

\* So every step does, but for the second reopening.
LEMMA AccaMoneyStep ==
  ASSUME TypeOK, AccasSound, [Next]_vars, NEW a \in Accas, AccaMoney(a)
  PROVE  AccaMoney(a)' \/ ReopensAgain(a)
<1>1. TypeOK'
  BY NextType
<1>2. ASSUME NEW h \in Handlers, Commits(h)
      PROVE  AccaMoney(a)' \/ ReopensAgain(a)
  <2>1. AccaTurns(a) \/ TurnsAgain(a)
    BY <1>2, CommitTurns
  <2> QED
    BY <1>1, <2>1, TurnKeepsMoney DEF TurnsAgain
<1>3. CASE \A h \in Handlers : ~Commits(h)
  <2>1. UNCHANGED <<acca, tokenLedger, pointsLedger>>
    BY <1>3, Quiet DEF StillStep, walletVars
  <2> QED
    BY <2>1 DEF AccaMoney, HeldFor, PaidFor
<1> QED
  BY <1>2, <1>3

(* An accumulator's stake is held once until a cancellation gives it back, *)
(* and only a win pays, once, what the row says, whatever settlements,     *)
(* cancellations, reversals and deletions overlap; the only step that can  *)
(* break it reopens what a crossing reversal has reopened already          *)
(* (accumulators.ts:280, 353, 501).                                        *)
THEOREM AccumulatorsArePaidOnce == Spec => AccumulatorsPaidOnce
<1>1. Init => \A a \in Accas : AccaMoney(a)
  BY AccasStartSound
<1>2. TypeOK /\ AccasSound /\ [Next]_vars
        => [\A a \in Accas : AccaMoney(a) => AccaMoney(a)' \/ ReopensAgain(a)]_vars
  BY AccaMoneyStep
<1> QED
  BY <1>1, <1>2, TypeCorrect, AccasAlwaysSound, PTL DEF Spec, AccumulatorsPaidOnce

\* A step of the platform is a step of the abstract Bet for each accumulator, or none.
LEMMA AccaAbstractStep ==
  ASSUME TypeOK, TypeOK', NEW a \in Accas, AccaMoney(a), RowSound(a), AccaTurns(a)
  PROVE  Slip!Step(a) \/ Slip!Rest(a)
<1> DEFINE held == HeldFor(a)
           paid == PaidFor(a)
           heldNext == HeldFor(a)'
           paidNext == PaidFor(a)'
           from == acca[a].status
           to == acca'[a].status
           stake == acca[a].stake
           stakeNext == acca'[a].stake
           payoutNext == acca'[a].payout
           phase(s) == IF s = "CANCELLED" THEN "REFUNDED" ELSE s
<1>1. /\ held \in Int /\ paid \in Nat /\ stake \in Nat /\ stakeNext \in Nat
      /\ payoutNext \in Nat /\ from \in AccaStatus
  BY AccaAmounts
<1>2. /\ from \in {"ABSENT", "CANCELLED"} => held = 0
      /\ from \in {"PENDING", "WON", "LOST"} => held = stake
      /\ from # "ABSENT" => stake > 0
  BY DEF AccaMoney, RowSound
<1>3. Slip!Rest(a) <=> phase(to) = phase(from) /\ heldNext = held /\ paidNext = paid
  BY DEF Slip!Rest
<1>4. Slip!Place(a) <=> /\ phase(from) = "ABSENT" /\ phase(to) = "PENDING"
                        /\ heldNext > 0 /\ paidNext = paid
  BY DEF Slip!Place, Slip!Turns
<1>5. Slip!Pay(a) <=> /\ phase(from) = "PENDING" /\ phase(to) \in {"WON", "CASHED_OUT"}
                      /\ heldNext = held /\ paidNext > 0
  BY DEF Slip!Pay, Slip!Turns
<1>6. Slip!Lose(a) <=> /\ phase(from) = "PENDING" /\ phase(to) = "LOST"
                       /\ heldNext = held /\ paidNext = paid
  BY DEF Slip!Lose, Slip!Turns
<1>7. Slip!Refund(a) <=> /\ phase(from) = "PENDING" /\ phase(to) = "REFUNDED"
                         /\ heldNext = 0 /\ paidNext = paid
  BY DEF Slip!Refund, Slip!Turns
<1>8. Slip!Reinstate(a) <=> /\ phase(from) = "REFUNDED" /\ phase(to) = "PENDING"
                            /\ heldNext > 0 /\ paidNext = paid
  BY DEF Slip!Reinstate, Slip!Turns
<1>9. Slip!Purge(a) <=> /\ phase(from) \in {"PENDING", "WON", "LOST", "CASHED_OUT", "REFUNDED"}
                        /\ phase(to) = "DELETED" /\ heldNext = held /\ paidNext = paid
  BY DEF Slip!Purge, Slip!Turns
<1>10. \/ to = from /\ heldNext = held + 0 /\ paidNext = paid + 0
       \/ /\ from = "ABSENT" /\ to = "PENDING" /\ stakeNext > 0
          /\ heldNext = held + stakeNext /\ paidNext = paid + 0
       \/ /\ from = "PENDING" /\ to = "WON"
          /\ payoutNext > 0 /\ heldNext = held + 0 /\ paidNext = paid + payoutNext
       \/ from = "PENDING" /\ to = "LOST" /\ heldNext = held + 0 /\ paidNext = paid + 0
       \/ /\ from = "PENDING" /\ to = "CANCELLED"
          /\ heldNext = held + (-stake) /\ paidNext = paid + 0
       \/ from = "CANCELLED" /\ to = "PENDING" /\ heldNext = held + stake /\ paidNext = paid + 0
       \/ /\ from \notin {"ABSENT", "DELETED"} /\ to = "DELETED"
          /\ heldNext = held + 0 /\ paidNext = paid + 0
  BY DEF AccaTurns, MoneyMoves, SameStake
<1> HIDE DEF held, paid, heldNext, paidNext, from, to, stake, stakeNext, payoutNext
<1> QED
  BY <1>1, <1>2, <1>3, <1>4, <1>5, <1>6, <1>7, <1>8, <1>9, <1>10
     DEF Slip!Step, AccaStatus

(* As long as an accumulator's money is right every step is, for it, a     *)
(* step of the abstract Bet or none, whatever settlements, cancellations,  *)
(* reversals and deletions overlap, but for a second reopening             *)
(* (accumulators.ts:95-210, 280-345, 384-431, 501-570).                    *)
THEOREM AccumulatorsRefineBet == Spec => AccumulatorsAreBets
<1>1. Init => Slip!Init
  BY DEF Init, Slip!Init, NoAcca, HeldFor, PaidFor, Bets
<1> DEFINE BetStep(a) == AccaMoney(a) => Slip!Step(a) \/ Slip!Rest(a) \/ ReopensAgain(a)
<1>2. TypeOK /\ TypeOK' /\ AccasSound /\ [Next]_vars => [\A a \in Accas : BetStep(a)]_vars
  <2> SUFFICES ASSUME TypeOK, TypeOK', AccasSound, [Next]_vars, NEW a \in Accas, AccaMoney(a)
               PROVE  Slip!Step(a) \/ Slip!Rest(a) \/ ReopensAgain(a)
    OBVIOUS
  <2>1. ASSUME NEW h \in Handlers, Commits(h)
        PROVE  Slip!Step(a) \/ Slip!Rest(a) \/ ReopensAgain(a)
    <3>1. RowSound(a) /\ (AccaTurns(a) \/ TurnsAgain(a))
      BY <2>1, CommitTurns DEF AccasSound
    <3> QED
      BY <3>1, AccaAbstractStep DEF TurnsAgain
  <2>2. CASE \A h \in Handlers : ~Commits(h)
    <3>1. UNCHANGED <<acca, tokenLedger, pointsLedger>>
      BY <2>2, Quiet DEF StillStep, walletVars
    <3> QED
      BY <3>1 DEF Slip!Rest, HeldFor, PaidFor
  <2> QED
    BY <2>1, <2>2
<1> QED
  BY <1>1, <1>2, TypeCorrect, AccasAlwaysSound, PTL DEF Spec, AccumulatorsAreBets

-----------------------------------------------------------------------------
(* An accumulator is what its legs say *)

\* Where a request has read a leg of accumulator a on its event, a is as it was read.
Whole(h, a) == req[h].view[a].legs[req[h].event].status # "NONE" => acca[a] = req[h].view[a]

\* The odds of the legs depend on their prices alone.
LEMMA SameOdds ==
  ASSUME NEW r, NEW s, NEW S \in SUBSET Events,
         \A f \in Events : s.legs[f].price = r.legs[f].price
  PROVE  Odds(s, S) = Odds(r, S)
<1>1. \A f \in S : s.legs[f].price = r.legs[f].price
  OBVIOUS
<1> QED
  BY <1>1 DEF Odds

\* A row whose legs did not move still matches them.
LEMMA StillMatches ==
  ASSUME NEW r, NEW s, MatchesLegs(r), s.status = r.status, s.stake = r.stake,
         s.potential = r.potential, s.payout = r.payout,
         \A f \in Events : s.legs[f].price = r.legs[f].price /\ s.legs[f].status = r.legs[f].status
  PROVE  MatchesLegs(s)
<1>1. ASSUME NEW X
      PROVE  LegsIn(s, X) = LegsIn(r, X)
  BY DEF LegsIn
<1>2. LegsIn(r, {"PENDING", "WON"}) \in SUBSET Events
  BY DEF LegsIn
<1>3. Odds(s, LegsIn(s, {"PENDING", "WON"})) = Odds(r, LegsIn(r, {"PENDING", "WON"}))
  BY <1>1, <1>2, SameOdds
<1> QED
  BY <1>1, <1>3 DEF MatchesLegs

\* settle
LEMMA SettleMatches ==
  ASSUME TypeOK, NEW h \in Handlers, NEW bonus, CommitSettle(h, bonus),
         LegHolds(h), NEW a \in Accas, Whole(h, a), MatchesLegs(acca[a])
  PROVE  MatchesLegs(acca'[a])
<1> DEFINE e == req[h].event
           n == req[h].outcome
           view == req[h].view
           r == acca[a]
           s == acca'[a]
           verdict == LegVerdict(r, e, n)
           row == MoveLeg(r, e, "PENDING", verdict)
           won == MarkedBySettle(view, e, n, "WON")
           lost == MarkedBySettle(view, e, n, "LOST")
<1>1. r \in AccaRow /\ e \in Events /\ view \in AccaTable
  BY RequestFields DEF CommitSettle, TypeOK, AccasTypeOK
<1>2. verdict \in {"WON", "LOST"}
  BY DEF LegVerdict
<1>3. /\ row.status = r.status /\ row.stake = r.stake
      /\ row.potential = r.potential /\ row.payout = r.payout
      /\ {"status", "stake", "potential", "payout", "legs"} \subseteq DOMAIN row
  BY <1>1, MoveLegLegs
<1>4. s = IF a \in won THEN [row EXCEPT !.status = "WON", !.payout = view[a].potential]
          ELSE IF a \in lost THEN [row EXCEPT !.status = "LOST", !.payout = 0]
          ELSE row
  BY DEF CommitSettle, SettledAccas
<1>5. \A f \in Events :
        /\ s.legs[f].price = r.legs[f].price
        /\ s.legs[f].status =
             IF f = e /\ r.legs[e].status = "PENDING" THEN verdict ELSE r.legs[f].status
  <2>1. LegMoves(a, e, "PENDING", verdict)
    BY CommitLegs
  <2> QED
    BY <2>1 DEF LegMoves
<1>6. s.stake = r.stake /\ s.potential = r.potential
  <2> HIDE DEF row
  <2> QED
    BY <1>3, <1>4
<1>7. /\ a \in won => s.status = "WON" /\ s.payout = view[a].potential
      /\ a \in lost /\ a \notin won => s.status = "LOST"
      /\ a \notin won /\ a \notin lost => s.status = r.status /\ s.payout = r.payout
  <2> HIDE DEF row
  <2> QED
    BY <1>3, <1>4
<1>8. MatchesLegs(r)
  OBVIOUS
<1>9. CASE r.legs[e].status # "PENDING"
  <2>1. a \notin won /\ a \notin lost
    BY <1>9 DEF MarkedBySettle, Affected, LegHolds
  <2>2. \A f \in Events :
          s.legs[f].price = r.legs[f].price /\ s.legs[f].status = r.legs[f].status
    BY <1>5, <1>9
  <2> HIDE DEF s, r
  <2>3. MatchesLegs(s)
    BY <1>6, <1>7, <1>8, <2>1, <2>2, StillMatches
  <2> QED
    BY <2>3 DEF s
<1>10. CASE r.legs[e].status = "PENDING" /\ r.status # "PENDING"
  <2>1. a \notin won /\ a \notin lost
    BY <1>10 DEF MarkedBySettle
  <2>2. s.status = r.status
    BY <1>7, <2>1
  <2>3. r.status \notin {"PENDING", "WON", "CANCELLED"}
    BY <1>1, <1>10 DEF MatchesLegs, LegsIn
  <2> QED
    BY <2>2, <2>3 DEF MatchesLegs
<1>11. CASE r.legs[e].status = "PENDING" /\ r.status = "PENDING"
  <2>1. /\ LegsIn(r, {"LOST"}) = {}
        /\ r.potential = CombinedPayout(r.stake, Odds(r, LegsIn(r, {"PENDING", "WON"})))
    BY <1>11 DEF MatchesLegs
  <2>2. view[a] = r /\ a \in Affected(view, e, "PENDING")
    BY <1>1, <1>11 DEF Affected, LegHolds, Whole
  <2>3. row = WithLeg(view[a], e, LegVerdict(view[a], e, n))
    BY <1>11, <2>2 DEF MoveLeg
  <2>4. SettleDecision(view, a, e, n) = SettleVerdict(row)
    BY <2>3 DEF SettleDecision
  <2>5. /\ a \in won <=> SettleVerdict(row) = "WON"
        /\ a \in lost <=> SettleVerdict(row) = "LOST"
    BY <1>11, <2>2, <2>4 DEF MarkedBySettle
  <2>6. ASSUME NEW X
        PROVE  LegsIn(row, X) = LegsIn(s, X)
    <3>1. \A f \in Events : row.legs[f].status = s.legs[f].status
      BY <1>1, <1>5, MoveLegLegs
    <3> HIDE DEF row, s
    <3> QED
      BY <3>1 DEF LegsIn
  <2>7. SettleVerdict(row) = IF LegsIn(s, {"LOST"}) # {} THEN "LOST"
                             ELSE IF LegsIn(s, {"PENDING"}) # {} THEN "PENDING"
                             ELSE "WON"
    BY <1>3, <1>11, <2>6 DEF SettleVerdict
  <2>8. s.status = IF LegsIn(s, {"LOST"}) # {} THEN "LOST"
                   ELSE IF LegsIn(s, {"PENDING"}) # {} THEN "PENDING"
                   ELSE "WON"
    BY <1>7, <1>11, <2>5, <2>7
  <2>9. s.status = "WON" => s.payout = s.potential
    BY <1>6, <1>7, <1>11, <2>2, <2>5, <2>7, <2>8
  <2>10. ASSUME LegsIn(s, {"LOST"}) = {}
         PROVE  /\ s.potential = CombinedPayout(s.stake, Odds(s, LegsIn(s, {"PENDING", "WON"})))
                /\ e \in LegsIn(s, {"WON"})
    <3>1. verdict = "WON" /\ s.legs[e].status = "WON"
      BY <1>1, <1>2, <1>5, <1>11, <2>10 DEF LegsIn
    <3>2. LegsIn(s, {"PENDING", "WON"}) = LegsIn(r, {"PENDING", "WON"})
      BY <1>5, <1>11, <3>1 DEF LegsIn
    <3>3. Odds(s, LegsIn(r, {"PENDING", "WON"})) = Odds(r, LegsIn(r, {"PENDING", "WON"}))
      <4>1. LegsIn(r, {"PENDING", "WON"}) \in SUBSET Events
        BY DEF LegsIn
      <4> HIDE DEF s, r
      <4> QED
        BY <1>5, <4>1, SameOdds
    <3> QED
      BY <1>1, <1>6, <2>1, <3>1, <3>2, <3>3 DEF LegsIn
  <2>11. s.status = "WON" => LegsIn(s, {"PENDING", "LOST"}) = {}
    BY <2>8 DEF LegsIn
  <2> HIDE DEF s
  <2>12. MatchesLegs(s)
    BY <2>8, <2>9, <2>10, <2>11 DEF MatchesLegs
  <2> QED
    BY <2>12 DEF s
<1> QED
  BY <1>9, <1>10, <1>11

\* cancel
LEMMA CancelMatches ==
  ASSUME TypeOK, NEW h \in Handlers, CommitCancel(h), LegHolds(h),
         NEW a \in Accas, Whole(h, a), MatchesLegs(acca[a])
  PROVE  MatchesLegs(acca'[a])
<1> DEFINE e == req[h].event
           view == req[h].view
           r == acca[a]
           s == acca'[a]
           row == MoveLeg(r, e, "PENDING", "REFUNDED")
           left == PotentialWithout(view[a], e)
           repriced == [row EXCEPT !.potential = left]
           lost == MarkedByCancel(view, e, "LOST")
           cancelled == MarkedByCancel(view, e, "CANCELLED")
           won == MarkedByCancel(view, e, "WON")
           waiting == MarkedByCancel(view, e, "PENDING")
           active == ActiveAfterCancel(r, e)
<1>1. r \in AccaRow /\ e \in Events /\ view \in AccaTable
  BY RequestFields DEF CommitCancel, TypeOK, AccasTypeOK
<1>2. /\ row.status = r.status /\ row.stake = r.stake
      /\ row.potential = r.potential /\ row.payout = r.payout
      /\ {"status", "stake", "potential", "payout", "legs"} \subseteq DOMAIN row
  BY <1>1, MoveLegLegs
<1>3. s = IF a \in lost THEN [row EXCEPT !.status = "LOST", !.payout = 0]
          ELSE IF a \in cancelled THEN [row EXCEPT !.status = "CANCELLED", !.payout = 0]
          ELSE IF a \in won THEN [repriced EXCEPT !.status = "WON", !.payout = repriced.potential]
          ELSE IF a \in waiting THEN repriced
          ELSE row
  BY DEF CommitCancel, CancelledAccas
<1>4. \A f \in Events :
        /\ s.legs[f].price = r.legs[f].price
        /\ s.legs[f].status =
             IF f = e /\ r.legs[e].status = "PENDING" THEN "REFUNDED" ELSE r.legs[f].status
  <2>1. LegMoves(a, e, "PENDING", "REFUNDED")
    BY CommitLegs
  <2> QED
    BY <2>1 DEF LegMoves
<1>5. MatchesLegs(r)
  OBVIOUS
<1>6. a \notin lost \cup cancelled \cup won \cup waiting =>
        /\ s.status = r.status /\ s.stake = r.stake
        /\ s.potential = r.potential /\ s.payout = r.payout
  BY <1>2, <1>3
<1>7. CASE r.legs[e].status # "PENDING"
  <2>1. a \notin lost \cup cancelled \cup won \cup waiting
    BY <1>7 DEF MarkedByCancel, Affected, LegHolds
  <2>2. \A f \in Events :
          s.legs[f].price = r.legs[f].price /\ s.legs[f].status = r.legs[f].status
    BY <1>4, <1>7
  <2> HIDE DEF s, r
  <2>3. MatchesLegs(s)
    BY <1>5, <1>6, <2>1, <2>2, StillMatches
  <2> QED
    BY <2>3 DEF s
<1>8. CASE r.legs[e].status = "PENDING" /\ r.status # "PENDING"
  <2>1. a \notin lost \cup cancelled \cup won \cup waiting
    BY <1>8 DEF MarkedByCancel
  <2>2. s.status = r.status
    BY <1>6, <2>1
  <2>3. r.status \notin {"PENDING", "WON", "CANCELLED"}
    BY <1>1, <1>8 DEF MatchesLegs, LegsIn
  <2> QED
    BY <2>2, <2>3 DEF MatchesLegs
<1>9. CASE r.legs[e].status = "PENDING" /\ r.status = "PENDING"
  <2>1. LegsIn(r, {"LOST"}) = {}
    BY <1>9 DEF MatchesLegs
  <2>2. view[a] = r /\ a \in Affected(view, e, "PENDING")
    BY <1>1, <1>9 DEF Affected, LegHolds, Whole
  <2> DEFINE decision == IF active = {} THEN "CANCELLED"
                         ELSE IF \A f \in active : r.legs[f].status = "WON" THEN "WON"
                         ELSE "PENDING"
  <2>3. CancelDecision(view[a], e) = decision
    <3>1. ~ \E f \in active : r.legs[f].status = "LOST"
      BY <2>1 DEF ActiveAfterCancel, LegsIn
    <3> QED
      BY <2>2, <3>1 DEF CancelDecision
  <2>4. /\ a \notin lost
        /\ a \in cancelled <=> decision = "CANCELLED"
        /\ a \in won <=> decision = "WON"
        /\ a \in waiting <=> decision = "PENDING"
    BY <1>9, <2>2, <2>3 DEF MarkedByCancel
  <2>5. /\ s.status = decision /\ s.stake = r.stake
        /\ decision \in {"WON", "PENDING"} => s.potential = left
        /\ decision = "WON" => s.payout = left
    <3> HIDE DEF row, left
    <3>1. CASE decision = "CANCELLED"
      BY <1>2, <1>3, <2>4, <3>1
    <3>2. CASE decision = "WON"
      BY <1>2, <1>3, <2>4, <3>2
    <3>3. CASE decision = "PENDING"
      BY <1>2, <1>3, <1>9, <2>4, <3>3
    <3> QED
      BY <3>1, <3>2, <3>3
  <2>6. \A f \in Events : f \in active <=> s.legs[f].status \in {"PENDING", "WON", "LOST"}
    BY <1>4, <1>9 DEF ActiveAfterCancel, LegsIn
  <2>7. active \in SUBSET Events /\ \A f \in active : s.legs[f].status = r.legs[f].status
    BY <1>4 DEF ActiveAfterCancel, LegsIn
  <2>8. LegsIn(s, {"LOST"}) = {}
    BY <1>4, <2>1 DEF LegsIn
  <2>9. LegsIn(s, {"PENDING", "WON"}) = active
    BY <2>6, <2>7, <2>8 DEF LegsIn
  <2>10. LegsIn(s, {"PENDING", "WON", "LOST"}) = active
    BY <2>6, <2>7 DEF LegsIn
  <2>11. left = CombinedPayout(s.stake, Odds(s, active))
    <3>1. left = CombinedPayout(r.stake, Odds(r, active))
      BY <2>2 DEF PotentialWithout
    <3>2. Odds(s, active) = Odds(r, active)
      <4> HIDE DEF s, r, active
      <4> QED
        BY <1>4, <2>7, SameOdds
    <3> QED
      BY <2>5, <3>1, <3>2
  <2>12. CASE decision = "CANCELLED"
    BY <2>5, <2>10, <2>12 DEF MatchesLegs
  <2>13. CASE decision = "WON"
    <3>1. active # {} /\ \A f \in active : s.legs[f].status = "WON"
      BY <2>7, <2>13
    <3>2. LegsIn(s, {"WON"}) # {} /\ LegsIn(s, {"PENDING", "LOST"}) = {}
      BY <2>6, <2>7, <3>1 DEF LegsIn
    <3> QED
      BY <2>5, <2>9, <2>11, <2>13, <3>2 DEF MatchesLegs
  <2>14. CASE decision = "PENDING"
    <3>1. \E f \in active : s.legs[f].status # "WON"
      BY <2>7, <2>14
    <3>2. LegsIn(s, {"PENDING"}) # {}
      BY <2>6, <2>7, <2>8, <3>1 DEF LegsIn
    <3> QED
      BY <2>5, <2>8, <2>9, <2>11, <2>14, <3>2 DEF MatchesLegs
  <2> QED
    BY <2>12, <2>13, <2>14
<1> QED
  BY <1>7, <1>8, <1>9

\* uncancel
LEMMA UncancelMatches ==
  ASSUME TypeOK, NEW h \in Handlers, CommitUncancel(h), LegHolds(h),
         Sensible(req[h]), NEW a \in Accas, Whole(h, a), MatchesLegs(acca[a])
  PROVE  MatchesLegs(acca'[a])
<1> DEFINE e == req[h].event
           view == req[h].view
           r == acca[a]
           s == acca'[a]
           row == MoveLeg(r, e, "REFUNDED", "PENDING")
           more == PotentialWith(view[a], e)
           reopened == Reopened(view, e)
           repriced == Repriced(view, e)
           counted == LegsIn(r, {"PENDING", "WON", "LOST"}) \cup {e}
<1>1. r \in AccaRow /\ e \in Events /\ view \in AccaTable
  BY RequestFields DEF CommitUncancel, TypeOK, AccasTypeOK
<1>2. /\ row.status = r.status /\ row.stake = r.stake
      /\ row.potential = r.potential /\ row.payout = r.payout
      /\ {"status", "stake", "potential", "payout", "legs"} \subseteq DOMAIN row
  BY <1>1, MoveLegLegs
<1>3. s = IF a \in reopened
          THEN [row EXCEPT !.status = "PENDING", !.payout = 0, !.potential = more]
          ELSE IF a \in repriced THEN [row EXCEPT !.potential = more]
          ELSE row
  BY DEF CommitUncancel, RestoredAccas
<1>4. \A f \in Events :
        /\ s.legs[f].price = r.legs[f].price
        /\ s.legs[f].status =
             IF f = e /\ r.legs[e].status = "REFUNDED" THEN "PENDING" ELSE r.legs[f].status
  <2>1. LegMoves(a, e, "REFUNDED", "PENDING")
    BY CommitLegs
  <2> QED
    BY <2>1 DEF LegMoves
<1>5. MatchesLegs(r)
  OBVIOUS
<1>6. a \notin reopened \cup repriced =>
        /\ s.status = r.status /\ s.stake = r.stake
        /\ s.potential = r.potential /\ s.payout = r.payout
  BY <1>2, <1>3
<1>7. CASE r.legs[e].status # "REFUNDED"
  <2>1. a \notin reopened \cup repriced
    BY <1>7 DEF Reopened, Repriced, Affected, LegHolds
  <2>2. \A f \in Events :
          s.legs[f].price = r.legs[f].price /\ s.legs[f].status = r.legs[f].status
    BY <1>4, <1>7
  <2> HIDE DEF s, r
  <2>3. MatchesLegs(s)
    BY <1>5, <1>6, <2>1, <2>2, StillMatches
  <2> QED
    BY <2>3 DEF s
<1>8. CASE r.legs[e].status = "REFUNDED"
  <2>1. view[a] = r /\ a \in Affected(view, e, "REFUNDED")
    BY <1>1, <1>8 DEF Affected, LegHolds, Whole
  <2>2. r.status # "WON"
    BY <2>1 DEF Sensible, CommitUncancel, Restorable
  <2>3. /\ a \in reopened <=> r.status = "CANCELLED"
        /\ a \in repriced <=> r.status = "PENDING"
    BY <2>1 DEF Reopened, Repriced
  <2>4. CASE r.status \in {"CANCELLED", "PENDING"}
    <3>1. s.status = "PENDING" /\ s.stake = r.stake /\ s.potential = more
      <4> HIDE DEF row, more
      <4> QED
        BY <1>2, <1>3, <2>3, <2>4
    <3>2. LegsIn(r, {"LOST"}) = {}
      BY <2>4 DEF MatchesLegs, LegsIn
    <3>3. LegsIn(s, {"LOST"}) = {} /\ e \in LegsIn(s, {"PENDING"})
      BY <1>1, <1>4, <1>8, <3>2 DEF LegsIn
    <3>4. LegsIn(s, {"PENDING", "WON"}) = counted
      BY <1>1, <1>4, <1>8, <3>2 DEF LegsIn
    <3>5. Odds(s, counted) = Odds(r, counted)
      <4>1. counted \in SUBSET Events
        BY <1>1 DEF LegsIn
      <4> HIDE DEF s, r, counted
      <4> QED
        BY <1>4, <4>1, SameOdds
    <3>6. more = CombinedPayout(s.stake, Odds(s, LegsIn(s, {"PENDING", "WON"})))
      BY <2>1, <3>1, <3>4, <3>5 DEF PotentialWith
    <3> QED
      BY <3>1, <3>3, <3>6 DEF MatchesLegs
  <2>5. CASE r.status \notin {"CANCELLED", "PENDING"}
    BY <1>6, <2>2, <2>3, <2>5 DEF MatchesLegs
  <2> QED
    BY <2>4, <2>5
<1> QED
  BY <1>7, <1>8

\* A commit of a bettor changes no accumulator but one that it places.
LEMMA OnlyPlaces ==
  ASSUME TypeOK, NEW h \in Handlers, NEW a \in Accas,
         \/ \E p \in Preds, accrual \in Accruals : CommitPlace(h, p, accrual)
         \/ \E q \in Prices : CommitCashout(h, q)
         \/ \E a0 \in Accas, accrual \in Accruals : CommitAccumulate(h, a0, accrual)
  PROVE  \/ acca'[a] = acca[a]
         \/ \E accrual \in Accruals : CommitAccumulate(h, a, accrual)
<1>1. CASE \/ \E p \in Preds, accrual \in Accruals : CommitPlace(h, p, accrual)
           \/ \E q \in Prices : CommitCashout(h, q)
  BY <1>1 DEF CommitPlace, CommitCashout
<1>2. ASSUME NEW a0 \in Accas, NEW accrual \in Accruals, CommitAccumulate(h, a0, accrual),
             a # a0
      PROVE  acca'[a] = acca[a]
  BY <1>2 DEF CommitAccumulate, TypeOK, AccasTypeOK
<1> QED
  BY <1>1, <1>2

\* deleteOldFinishedEvents, as long as no leg that counts goes
LEMMA DeleteMatches ==
  ASSUME TypeOK, NEW h \in Handlers, CommitDelete(h), NEW a \in Accas, ~LosesLeg(a),
         MatchesLegs(acca[a])
  PROVE  MatchesLegs(acca'[a])
<1> DEFINE S == req[h].events
           r == acca[a]
           s == acca'[a]
           legs == [f \in Events |-> IF f \in S /\ r.legs[f].status # "NONE"
                                     THEN [r.legs[f] EXCEPT !.status = "DELETED"]
                                     ELSE r.legs[f]]
           row == [r EXCEPT !.legs = legs]
<1>1. r \in AccaRow /\ \A f \in Events : r.legs[f] \in Leg
  BY DEF TypeOK, AccasTypeOK, AccaRow
<1>2. s = IF r.status \notin {"ABSENT", "DELETED"} /\ LiveLegs(row) = {}
          THEN [row EXCEPT !.status = "DELETED"] ELSE row
  BY <1>1 DEF CommitDelete, PurgedAccas, AccaRow
<1>3. /\ row.status = r.status /\ row.stake = r.stake /\ row.legs = legs
      /\ row.potential = r.potential /\ row.payout = r.payout
      /\ {"status", "stake", "potential", "payout", "legs"} \subseteq DOMAIN row
  BY <1>1 DEF AccaRow
<1>4. /\ s.stake = r.stake /\ s.legs = legs /\ s.potential = r.potential /\ s.payout = r.payout
      /\ s.status \in {r.status, "DELETED"}
  <2> HIDE DEF row
  <2> QED
    BY <1>2, <1>3
<1>5. \A f \in Events :
        /\ legs[f].price = r.legs[f].price
        /\ legs[f].status = r.legs[f].status \/ legs[f].status = "DELETED"
  BY <1>1 DEF Leg
<1>6. \A f \in Events : r.legs[f].status \in {"PENDING", "WON"} => legs[f].status = r.legs[f].status
  BY <1>4, <1>5 DEF LosesLeg
<1> HIDE DEF s, r, legs, row
<1>7. /\ LegsIn(s, {"PENDING"}) = LegsIn(r, {"PENDING"})
      /\ LegsIn(s, {"WON"}) = LegsIn(r, {"WON"})
      /\ LegsIn(s, {"PENDING", "WON"}) = LegsIn(r, {"PENDING", "WON"})
      /\ LegsIn(s, {"LOST"}) \subseteq LegsIn(r, {"LOST"})
      /\ LegsIn(s, {"PENDING", "LOST"}) \subseteq LegsIn(r, {"PENDING", "LOST"})
      /\ LegsIn(s, {"PENDING", "WON", "LOST"}) \subseteq LegsIn(r, {"PENDING", "WON", "LOST"})
  BY <1>4, <1>5, <1>6 DEF LegsIn
<1>8. Odds(s, LegsIn(s, {"PENDING", "WON"})) = Odds(r, LegsIn(r, {"PENDING", "WON"}))
  <2>1. LegsIn(r, {"PENDING", "WON"}) \in SUBSET Events
    BY DEF LegsIn
  <2> QED
    BY <1>4, <1>5, <1>7, <2>1, SameOdds
<1>9. MatchesLegs(r) => MatchesLegs(s)
  BY <1>4, <1>7, <1>8 DEF MatchesLegs
<1> QED
  BY <1>9 DEF r, s

\* A placed accumulator matches its legs.
LEMMA PlacedMatches ==
  ASSUME TypeOK, NEW h \in Handlers, Sensible(req[h]), NEW a \in Accas,
         NEW accrual \in Accruals, CommitAccumulate(h, a, accrual)
  PROVE  MatchesLegs(acca'[a])
<1> DEFINE s == acca'[a]
           legs == req[h].legs
           S == LegsChosen(legs)
<1>1. s = NewAcca(req[h].user, req[h].stake, legs)
  BY DEF CommitAccumulate, TypeOK, AccasTypeOK
<1>2. legs \in [Events -> LegChoices] /\ S # {}
  BY DEF CommitAccumulate, Sensible
<1>3. \A f \in Events : legs[f].status \in {"NONE", "PENDING"}
  BY <1>2 DEF LegChoices, NoLeg
<1>4. /\ s.status = "PENDING" /\ s.legs = legs
      /\ s.stake = req[h].stake
      /\ s.potential = CombinedPayout(req[h].stake, [f \in S |-> legs[f].price])
  BY <1>1 DEF NewAcca, LegsChosen
<1>5. /\ LegsIn(s, {"PENDING"}) = S /\ LegsIn(s, {"LOST"}) = {}
      /\ LegsIn(s, {"PENDING", "WON"}) = S
  <2> HIDE DEF s
  <2> QED
    BY <1>3, <1>4 DEF LegsIn, LegsChosen
<1>6. Odds(s, S) = [f \in S |-> legs[f].price]
  BY <1>4 DEF Odds
<1> HIDE DEF s, S
<1>7. MatchesLegs(s)
  BY <1>2, <1>4, <1>5, <1>6 DEF MatchesLegs
<1> QED
  BY <1>7 DEF s

\* Every step keeps an accumulator matching its legs, but for the two that are named.
LEMMA MatchesStep ==
  ASSUME TypeOK, AccasSound, [Next]_vars, NEW a \in Accas, MatchesLegs(acca[a])
  PROVE  MatchesLegs(acca'[a]) \/ DecidedBlind(a) \/ LosesLeg(a)
<1>1. ASSUME NEW h \in Handlers, Commits(h), ~DecidedBlind(a), ~LosesLeg(a)
      PROVE  MatchesLegs(acca'[a])
  <2>1. Sensible(req[h]) /\ req'[h] = Idle
    BY <1>1, CommitEnds DEF AccasSound, Finish, TypeOK
  <2>2. RunsAdmin(h) => LegHolds(h) /\ Whole(h, a)
    BY <1>1, <2>1 DEF AccasSound, LegsHold, Whole, DecidedBlind
  <2>3. ASSUME NEW bonus \in [Users -> Bonuses], CommitSettle(h, bonus)
        PROVE  MatchesLegs(acca'[a])
    BY <2>2, <2>3, SettleMatches DEF RunsAdmin, CommitSettle
  <2>4. CASE CommitCancel(h)
    BY <2>2, <2>4, CancelMatches DEF RunsAdmin, CommitCancel
  <2>5. CASE CommitUncancel(h)
    BY <2>1, <2>2, <2>5, UncancelMatches DEF RunsAdmin, CommitUncancel
  <2>6. CASE CommitDelete(h)
    BY <1>1, <2>6, DeleteMatches
  <2>7. CASE \/ \E p \in Preds, accrual \in Accruals : CommitPlace(h, p, accrual)
             \/ \E q \in Prices : CommitCashout(h, q)
             \/ \E a0 \in Accas, accrual \in Accruals : CommitAccumulate(h, a0, accrual)
    <3>1. acca'[a] = acca[a] \/ \E accrual \in Accruals : CommitAccumulate(h, a, accrual)
      BY <2>7, OnlyPlaces
    <3> QED
      BY <2>1, <3>1, PlacedMatches
  <2> QED
    BY <1>1, <2>3, <2>4, <2>5, <2>6, <2>7 DEF Commits
<1>2. CASE \A h \in Handlers : ~Commits(h)
  BY <1>2, Quiet DEF StillStep
<1> QED
  BY <1>1, <1>2

(* An accumulator is LOST, WON, CANCELLED or waiting as its legs say, and  *)
(* pays for exactly those that count, whatever is cancelled and restored:  *)
(* only a decision taken on an older row, or the deletion of a leg that    *)
(* counts, can part them (accumulators.ts:239, 384-431, 501-570,           *)
(* events.ts:764).                                                         *)
THEOREM AccumulatorsMatchLegs == Spec => AccumulatorMatchesLegs
<1> DEFINE Kept(a) ==
      MatchesLegs(acca[a]) => MatchesLegs(acca'[a]) \/ DecidedBlind(a) \/ LosesLeg(a)
<1>1. Init => \A a \in Accas : MatchesLegs(acca[a])
  BY AccasStartSound
<1>2. TypeOK /\ AccasSound /\ [Next]_vars => [\A a \in Accas : Kept(a)]_vars
  BY MatchesStep
<1> QED
  BY <1>1, <1>2, TypeCorrect, AccasAlwaysSound, PTL DEF Spec, AccumulatorMatchesLegs

=============================================================================
