-------------------------- MODULE BettingProperties -------------------------
(***************************************************************************)
(* What Betting must guarantee, stated over its tables and ledgers.        *)
(***************************************************************************)
EXTENDS Betting

HeldFor(b) == tokenLedger[b].stake - tokenLedger[b].refund
PaidFor(b) == pointsLedger[b].win + pointsLedger[b].cashout

(* The ledger rows of a prediction and its status tell the same story,     *)
(* through every mix of settlement, cashout, cancellation, reversal and    *)
(* deletion: the stake is held exactly once unless refunded, and only a    *)
(* win or a cashout has paid, once, what the row says                      *)
(* (predictions.ts:370, events.ts:341, 517, 599).                          *)
PredMoney(p) ==
  LET r == pred[p]
      held == HeldFor(p)
      win == pointsLedger[p].win
      cash == pointsLedger[p].cashout
  IN  /\ r.status \in {"ABSENT", "REFUNDED"} => held = 0 /\ win = 0 /\ cash = 0
      /\ r.status \in {"PENDING", "LOST"} => held = r.stake /\ win = 0 /\ cash = 0
      /\ r.status = "WON" => held = r.stake /\ win = r.payout /\ cash = 0
      /\ r.status = "CASHED_OUT" => held = r.stake /\ win = 0 /\ cash = r.payout
      /\ r.status = "DELETED" => held \in {0, r.stake} /\ (win = 0 \/ cash = 0)

PredictionsPaidOnce == \A p \in Preds : PredMoney(p)

(* ledger.ts:14 "User.tokenBalance is a cached value that MUST equal       *)
(* SUM(transactions)", and the same of points: after any sequence of       *)
(* postings by any number of bets and users.                               *)
BalancesMatchLedgers ==
  \A u \in Users : /\ tokenBalance[u] = TokenLedgerSum(OwnerNow, u)
                   /\ pointsBalance[u] = PointsLedgerSum(OwnerNow, u)

\* The result of the event is still open.
Undecided(e) == event[e].status \in {"OPEN", "LOCKED"}

(* No bet outlives its event: once an event is settled, cancelled or       *)
(* deleted no prediction and no accumulator leg on it is still PENDING,    *)
(* though bets are placed from a stale read and an event can be locked,    *)
(* cancelled and reopened under them (predictions.ts:104-126,              *)
(* accumulators.ts:95-107).                                                *)
NothingOpenOnFinished ==
  \A e \in Events : ~Undecided(e) =>
    /\ OnEvent(e, "PENDING") = {}
    /\ \A a \in Accas : acca[a].legs[e].status # "PENDING"

(* Every prediction behaves like the abstract Bet.                         *)
Single == INSTANCE Bet
  WITH Slips <- Preds,
       phase <- [p \in Preds |-> pred[p].status],
       held <- [p \in Preds |-> HeldFor(p)],
       paid <- [p \in Preds |-> PaidFor(p)]
PredictionsAreBets == Single!Spec

-----------------------------------------------------------------------------

\* Settlement, cancellation and reversal read the accumulators without a lock.
RunsAdmin(h) == req[h].op \in {"settle", "cancel", "uncancel"}

\* The ledger rows of accumulator a and its status tell the same story.
AccaMoney(a) ==
  /\ acca[a].status \in {"ABSENT", "CANCELLED"} => HeldFor(a) = 0
  /\ acca[a].status \in {"PENDING", "WON", "LOST"} => HeldFor(a) = acca[a].stake
  /\ acca[a].status = "WON" => PaidFor(a) = acca[a].payout /\ PaidFor(a) > 0
  /\ acca[a].status \in {"ABSENT", "PENDING", "LOST", "CANCELLED"} => PaidFor(a) = 0

\* A reversal reopens an accumulator that was CANCELLED when it read it and no longer is:
\* the update of accumulators.ts:545 does not ask again.
ReopensAgain(a) ==
  \E h \in Handlers :
    /\ req[h].op = "uncancel" /\ req'[h] = Idle
    /\ req[h].view[a].legs[req[h].event].status = "REFUNDED"
    /\ req[h].view[a].status = "CANCELLED" /\ acca[a].status # "CANCELLED"

(* The stake of an accumulator is held exactly once unless refunded and    *)
(* only a win has paid, once, what the row says, through settlements,      *)
(* cancellations, reversals and deletions that cross in any way: the one   *)
(* step that may break it is a reversal that reopens what another reversal *)
(* has reopened meanwhile (accumulators.ts:280, 353, 501).                 *)
AccumulatorsPaidOnce ==
  /\ \A a \in Accas : AccaMoney(a)
  /\ [][\A a \in Accas : AccaMoney(a) => AccaMoney(a)' \/ ReopensAgain(a)]_vars

\* What the legs of row r say of it.  Matching rows are LOST on a lost leg, WON once all the
\* legs that count have won, CANCELLED when none counts, and PENDING while one is open; they
\* pay, or stand to pay, for exactly the legs that were not cancelled.
MatchesLegs(r) ==
  LET counted == LegsIn(r, {"PENDING", "WON"})
  IN  /\ r.status = "PENDING" => LegsIn(r, {"PENDING"}) # {} /\ LegsIn(r, {"LOST"}) = {}
      /\ r.status = "WON" => /\ LegsIn(r, {"WON"}) # {}
                             /\ LegsIn(r, {"PENDING", "LOST"}) = {}
                             /\ r.payout = r.potential
      /\ r.status = "CANCELLED" => LegsIn(r, {"PENDING", "WON", "LOST"}) = {}
      /\ r.status \in {"PENDING", "WON"} => r.potential = CombinedPayout(r.stake, Odds(r, counted))

\* A settlement, cancellation or reversal commits what it decided on an older row than this.
DecidedBlind(a) ==
  \E h \in Handlers :
    /\ RunsAdmin(h) /\ req'[h] = Idle
    /\ req[h].view[a].legs[req[h].event].status # "NONE"
    /\ acca[a] # req[h].view[a]

\* The cleanup takes a leg that counts.
LosesLeg(a) ==
  \E e \in Events : /\ acca[a].legs[e].status \in {"PENDING", "WON"}
                    /\ acca'[a].legs[e].status = "DELETED"

(* accumulators.test.ts:76, 113, 157: LOST when any leg loses, WON when    *)
(* all legs win, CANCELLED when all legs are cancelled; between them it    *)
(* waits for a leg, whatever was cancelled and restored on the way         *)
(* (accumulators.ts:384-431, 501-570).  Only two steps may make a row that *)
(* matched its legs stop doing so: the commit of a decision taken on an    *)
(* older row (accumulators.ts:239), and the deletion of a leg that counts  *)
(* (events.ts:764).                                                        *)
AccumulatorMatchesLegs ==
  /\ \A a \in Accas : MatchesLegs(acca[a])
  /\ [][\A a \in Accas :
          MatchesLegs(acca[a]) => MatchesLegs(acca'[a]) \/ DecidedBlind(a) \/ LosesLeg(a)]_vars

Slip == INSTANCE Bet
  WITH Slips <- Accas,
       phase <- [a \in Accas |-> IF acca[a].status = "CANCELLED" THEN "REFUNDED"
                                  ELSE acca[a].status],
       held <- [a \in Accas |-> HeldFor(a)],
       paid <- [a \in Accas |-> PaidFor(a)]

(* Every accumulator behaves like the abstract Bet: as long as its money   *)
(* is right each step of the platform is a step of Bet for it, or none,    *)
(* whatever runs at the same time, but for the reopening of what is open   *)
(* again already (accumulators.ts:95-210, 280-345, 384-431, 501-570).      *)
AccumulatorsAreBets ==
  /\ Slip!Init
  /\ [][\A a \in Accas : AccaMoney(a) => Slip!Step(a) \/ Slip!Rest(a) \/ ReopensAgain(a)]_vars

-----------------------------------------------------------------------------
(* Statements of the repository that the code does not keep.               *)

(* schema.prisma: "Status flow: OPEN -> LOCKED -> SETTLED (or CANCELLED at *)
(* any point)": a settled event stays settled until its row is deleted.    *)
SettledIsFinal ==
  [][\A e \in Events : event[e].status = "SETTLED" => event'[e].status \in {"SETTLED", "DELETED"}]_event

(* events.ts:127 "Cannot change event outcomes after predictions have been *)
(* placed": so who backed the outcome an event was settled with never      *)
(* loses.                                                                  *)
BackersNeverLose ==
  \A p \in Preds : pred[p].status = "LOST" /\ event[pred[p].event].status = "SETTLED"
    => Norm[pred[p].name] # Norm[event[pred[p].event].final]

(* accumulators.test.ts:113 "settles accumulator as WON and credits points *)
(* when all legs win", 157 "... refunds stake when all legs are            *)
(* cancelled": one that has no pending leg left has its verdict.           *)
NoAccumulatorWaitsForNothing ==
  \A a \in Accas : acca[a].status = "PENDING" => LegsIn(acca[a], {"PENDING"}) # {}

(* accumulators.test.ts:157 "cancels accumulator and refunds stake when    *)
(* all legs are cancelled": so the stake comes back only if no leg was     *)
(* settled, its row still there or not.                                    *)
CancelledMeansAllLegsCancelled ==
  \A a \in Accas, e \in Events :
    LET leg == acca[a].legs[e].status
    IN  acca[a].status = "CANCELLED" /\ leg # "NONE" =>
          leg = "REFUNDED" \/ (leg = "DELETED" /\ event[e].final = None)
============================================================================
