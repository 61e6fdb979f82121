------------------------------ MODULE Wallets ------------------------------
(***************************************************************************)
(* The two ledgers of a user: tokens (ledger.ts) and points                *)
(* (pointsLedger.ts), both built by createLedgerService (ledgerCore.ts).   *)
(* Each ledger is a cached balance on the User row plus transaction rows   *)
(* that are only ever added.  The rows that refer to a bet are kept as the *)
(* total amount per bet and row type; every other token row (signup bonus, *)
(* allowance, streak bonus) as one total per user.                         *)
(*                                                                         *)
(* executeAtomicChange locks the User row, so all postings of one database *)
(* transaction take effect together at its commit.                         *)
(***************************************************************************)
EXTENDS Integers, FiniteSets, Functions

CONSTANTS
  Users,    \* User rows
  Preds,    \* ids that Prediction rows may get
  Accas     \* ids that Accumulator rows may get

ASSUME BetIdsAssumption == Preds \cap Accas = {}

VARIABLES
  tokenBalance,   \* User.tokenBalance
  pointsBalance,  \* User.pointsBalance
  tokenLedger,    \* TokenTransaction rows by referenceId: PREDICTION_STAKE, PREDICTION_REFUND
  pointsLedger,   \* PointsTransaction rows by referenceId: PREDICTION_WIN, CASHOUT
  granted         \* the other TokenTransaction rows of each user, summed

walletVars == <<tokenBalance, pointsBalance, tokenLedger, pointsLedger, granted>>

Bets == Preds \cup Accas

WalletsTypeOK ==
  /\ tokenBalance \in [Users -> Nat]
  /\ pointsBalance \in [Users -> Nat]
  /\ tokenLedger \in [Bets -> [stake : Nat, refund : Nat]]
  /\ pointsLedger \in [Bets -> [win : Nat, cashout : Nat]]
  /\ granted \in [Users -> Nat]

\* The amount that a batch of rows (a function from bets to amounts) holds for bet b.
AmountIn(batch, b) == IF b \in DOMAIN batch THEN batch[b] ELSE 0

\* What a batch adds up to for user u, owner[b] being the user whose bet b is.
BatchTotal(batch, owner, u) ==
  SumFunctionOnSet(batch, {b \in DOMAIN batch : owner[b] = u})

\* No rows.
NoRows == [b \in {} |-> 0]

\* Mutant: the allowance is added to the balance without a transaction row.
PostTokensWithoutRow(grant, debits, refunds, owner) ==
  LET newBalance ==
        [u \in Users |-> tokenBalance[u] + grant[u]
                           + BatchTotal(refunds, owner, u)
                           - BatchTotal(debits, owner, u)]
  IN  /\ newBalance \in [Users -> Nat]
      /\ tokenBalance' = newBalance
      /\ tokenLedger' =
           [b \in Bets |-> [stake  |-> tokenLedger[b].stake + AmountIn(debits, b),
                            refund |-> tokenLedger[b].refund + AmountIn(refunds, b)]]
      /\ UNCHANGED granted

\* Mutant: the balance may go below zero.
PostTokensUnchecked(grant, debits, refunds, owner) ==
  /\ tokenBalance' = [u \in Users |-> tokenBalance[u] + grant[u]
                                       + BatchTotal(refunds, owner, u)
                                       - BatchTotal(debits, owner, u)]
  /\ tokenLedger' =
       [b \in Bets |-> [stake  |-> tokenLedger[b].stake + AmountIn(debits, b),
                        refund |-> tokenLedger[b].refund + AmountIn(refunds, b)]]
  /\ granted' = [u \in Users |-> granted[u] + grant[u]]

(***************************************************************************)
(* Token postings of one transaction: `grant` (credits that refer to no    *)
(* bet), stake debits and refund credits.  A balance that would go below   *)
(* zero rejects the whole transaction.                                     *)
(***************************************************************************)
PostTokens(grant, debits, refunds, owner) ==
  LET newBalance ==
        [u \in Users |-> tokenBalance[u] + grant[u]
                           + BatchTotal(refunds, owner, u)
                           - BatchTotal(debits, owner, u)]
  IN  /\ newBalance \in [Users -> Nat]
      /\ tokenBalance' = newBalance
      /\ tokenLedger' =
           [b \in Bets |-> [stake  |-> tokenLedger[b].stake + AmountIn(debits, b),
                            refund |-> tokenLedger[b].refund + AmountIn(refunds, b)]]
      /\ granted' = [u \in Users |-> granted[u] + grant[u]]

(***************************************************************************)
(* Points postings of one transaction: winnings and cashouts.  A credit of *)
(* zero is rejected, and with it the transaction.                          *)
(***************************************************************************)
PostPoints(wins, cashouts, owner) ==
  LET newBalance ==
        [u \in Users |-> pointsBalance[u] + BatchTotal(wins, owner, u)
                                          + BatchTotal(cashouts, owner, u)]
  IN  /\ \A b \in DOMAIN wins : wins[b] > 0
      /\ \A b \in DOMAIN cashouts : cashouts[b] > 0
      /\ newBalance \in [Users -> Nat]
      /\ pointsBalance' = newBalance
      /\ pointsLedger' =
           [b \in Bets |-> [win     |-> pointsLedger[b].win + AmountIn(wins, b),
                            cashout |-> pointsLedger[b].cashout + AmountIn(cashouts, b)]]

NoTokens == UNCHANGED <<tokenBalance, tokenLedger, granted>>
NoPoints == UNCHANGED <<pointsBalance, pointsLedger>>
NoGrant == [u \in Users |-> 0]

\* The balance that user u's ledger rows add up to (aggregateBalance).
TokenLedgerSum(owner, u) ==
  granted[u] + SumFunctionOnSet([b \in Bets |-> tokenLedger[b].refund - tokenLedger[b].stake],
                                {b \in Bets : owner[b] = u})
PointsLedgerSum(owner, u) ==
  SumFunctionOnSet([b \in Bets |-> pointsLedger[b].win + pointsLedger[b].cashout],
                   {b \in Bets : owner[b] = u})
============================================================================
