---------------------------- MODULE Predictions ----------------------------
(***************************************************************************)
(* Single predictions (services/predictions.ts): the Prediction table and  *)
(* what settling, cancelling, uncancelling and deleting an event does to   *)
(* its rows.  The state machine is in Betting, which composes this with    *)
(* the accumulators and the events themselves.                             *)
(***************************************************************************)
EXTENDS Wallets

CONSTANTS
  Events,          \* Event rows
  Names,           \* spellings of outcomes
  Norm,            \* [Names -> classes]: normalizeOutcome, what two spellings share
  Stakes,          \* stakes within MIN_STAKE_AMOUNT .. MAX_STAKE_AMOUNT
  Prices,          \* decimal odds, times Scale
  Scale,           \* the fixed-point unit of Prices
  DriftPercent,    \* CASHOUT_ODDS_DRIFT_THRESHOLD_PERCENT
  None             \* null

ASSUME PricingAssumption ==
  /\ Stakes \subseteq Nat \ {0}
  /\ Prices \subseteq Nat \ {0}
  /\ Scale \in Nat \ {0}
  /\ DriftPercent \in Nat
  /\ Norm \in [Names -> Nat]

VARIABLE pred      \* the Prediction table, ABSENT and DELETED standing for no row

PredStatus == {"ABSENT", "PENDING", "WON", "LOST", "REFUNDED", "CASHED_OUT", "DELETED"}

PredRow == [status : PredStatus, user : Users \cup {None}, event : Events \cup {None},
            name : Names \cup {None}, stake : Nat, price : Nat, payout : Nat]

PredsTypeOK == pred \in [Preds -> PredRow]

NoPred == [status |-> "ABSENT", user |-> None, event |-> None, name |-> None,
           stake |-> 0, price |-> 0, payout |-> 0]

NewPred(u, e, n, s, q) ==
  [status |-> "PENDING", user |-> u, event |-> e, name |-> n,
   stake |-> s, price |-> q, payout |-> 0]

PredExists(p) == pred[p].status \notin {"ABSENT", "DELETED"}

PredOwner == [p \in Preds |-> pred[p].user]

\* calculatePayout
SinglePayout(stake, price) == (stake * price) \div Scale

\* calculateCashoutValue: the margin is 5% before kickoff and 10% after it.
CashoutValue(stake, original, current, started) ==
  (stake * original * (IF started THEN 90 ELSE 95)) \div (current * 100)

\* The drift check of cashout: the odds moved by no more than the threshold.
WithinDrift(quoted, latest) ==
  (IF latest > quoted THEN latest - quoted ELSE quoted - latest) * 100 <= DriftPercent * quoted

-----------------------------------------------------------------------------

OnEvent(e, status) == {p \in Preds : pred[p].event = e /\ pred[p].status = status}

\* The comparison settle makes is on the exact spelling.
Backs(p, n) == pred[p].name = n

WinnersOf(e, n) == {p \in OnEvent(e, "PENDING") : Backs(p, n)}

PredWins(e, n) == [p \in WinnersOf(e, n) |-> SinglePayout(pred[p].stake, pred[p].price)]

\* Mutant: the losers are updated whatever their status.
SettledPredsUnguarded(e, n) ==
  [p \in Preds |->
     IF pred[p].event # e \/ ~PredExists(p) THEN pred[p]
     ELSE IF p \in WinnersOf(e, n)
          THEN [pred[p] EXCEPT !.status = "WON", !.payout = PredWins(e, n)[p]]
          ELSE [pred[p] EXCEPT !.status = "LOST", !.payout = 0]]

\* settle's loop over the locked PENDING predictions
SettledPreds(e, n) ==
  [p \in Preds |->
     IF p \notin OnEvent(e, "PENDING") THEN pred[p]
     ELSE IF p \in WinnersOf(e, n)
          THEN [pred[p] EXCEPT !.status = "WON", !.payout = PredWins(e, n)[p]]
          ELSE [pred[p] EXCEPT !.status = "LOST", !.payout = 0]]

StakesOf(e, status) == [p \in OnEvent(e, status) |-> pred[p].stake]

Moved(e, from, to) ==
  [p \in Preds |->
     IF p \in OnEvent(e, from) THEN [pred[p] EXCEPT !.status = to, !.payout = 0] ELSE pred[p]]

\* cancel's loop, and uncancel's
RefundedPreds(e) == Moved(e, "PENDING", "REFUNDED")
RestoredPreds(e) == Moved(e, "REFUNDED", "PENDING")

\* deleteOldFinishedEvents: every prediction of these events, whatever its status
PurgedPreds(S) ==
  [p \in Preds |->
     IF PredExists(p) /\ pred[p].event \in S THEN [pred[p] EXCEPT !.status = "DELETED"]
     ELSE pred[p]]
============================================================================
