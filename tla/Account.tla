------------------------------ MODULE Account ------------------------------
(***************************************************************************)
(* What a user earns and spends outside betting: the token allowance with  *)
(* the token ledger's administration, and the shop; and the password and   *)
(* address that the account is reached by.  The first moves tokens, the    *)
(* second points; the three share the process and the database and no      *)
(* state.                                                                  *)
(***************************************************************************)
EXTENDS Rewards, Allowance, Credentials

accountVars == <<shopVars, tokenVars, credentialVars>>

AccountTypeOK == ShopTypeOK /\ AllowanceTypeOK /\ CredentialsTypeOK

Init == ShopInit /\ AllowanceInit /\ CredentialsInit

Next == \/ ShopNext /\ UNCHANGED <<tokenVars, credentialVars>>
        \/ TokensNext /\ UNCHANGED <<shopVars, credentialVars>>
        \/ CredentialsNext /\ UNCHANGED <<shopVars, tokenVars>>

Spec == Init /\ [][Next]_accountVars

-----------------------------------------------------------------------------

\* Request d ends, by its write or without one.
Answered(d) == desk[d] # AtRest /\ desk'[d] = AtRest

\* What request d read holds no more: another one has decided its redemption, ...
Overtaken(d) == desk[d] # AtRest /\ redemption[desk[d].id].status # "PENDING"

\* ... or the reward was given a limit, or lost it.
Outdated(d) ==
  \/ Overtaken(d)
  \/ desk[d].op = "cancel" /\ desk[d].limited # Limited(redemption[desk[d].id].reward)

PaidRight(x) ==
  LET r == redemption[x]
  IN  /\ posted[x].debit = IF r.status = "ABSENT" THEN 0 ELSE r.cost
      /\ posted[x].refund = IF r.status = "CANCELLED" THEN r.cost ELSE 0

PointsAddUp ==
  \A u \in Customers :
    points[u] = StartPoints
      - SumFunctionOnSet([x \in Redemptions |-> posted[x].debit - posted[x].refund], Paid(u))

(* A redemption is paid once and refunded exactly when it is cancelled,    *)
(* at the price it was redeemed for, whatever happened to the price since. *)
(* One thing alone parts its rows from its status: the answer of a request *)
(* that another one, which read the same PENDING redemption, has overtaken *)
(* (rewards.ts:158, 328, 341-363).  And whatever crosses, the points       *)
(* balance is what the customer won less what his rows say he paid, so     *)
(* that no points are made or lost without a row (ledgerCore.ts:50).       *)
RedemptionMoney ==
  [][/\ PointsAddUp'
     /\ \A x \in Redemptions :
          PaidRight(x) => \/ PaidRight(x)'
                          \/ \E d \in Desks : Answered(d) /\ Overtaken(d) /\ desk[d].id = x]_shopVars

\* How far the counter of a reward is above the items that its redemptions hold.
Surplus(r) == reward[r].claimed - Cardinality(Live(r))

\* The answer of a request about an item of r that has been outdated.
LateAnswer(r) ==
  \E d \in Desks : Answered(d) /\ Outdated(d) /\ redemption[desk[d].id].reward = r

(* rewards.ts:134 "Lock the reward row to prevent stock oversell": the     *)
(* counter of a limited reward follows the items held, whatever becomes of *)
(* them, and that of an unlimited one stands still (rewards.ts:172,        *)
(* 365-370).  A limit that is set late counts from there on, and a late    *)
(* answer of the desk is the one step that parts the two.                  *)
StockCountsItems ==
  [][\A r \in Rewards :
       \/ IF Limited(r) THEN Surplus(r)' = Surplus(r) ELSE reward'[r].claimed = reward[r].claimed
       \/ LateAnswer(r)]_shopVars

(* No redemption lifts the items held above the limit that stands when it  *)
(* is made (the limit may be lowered below what is held already), unless   *)
(* the counter has been left behind the items before.                      *)
NeverOversold ==
  [][\A r \in Rewards :
       Cardinality(Live(r)') > Cardinality(Live(r)) /\ Limited(r) =>
         \/ Cardinality(Live(r)') <= reward[r].limit
         \/ Surplus(r) < 0
         \/ LateAnswer(r)]_shopVars

-----------------------------------------------------------------------------

(* By any day of a week a user has been credited no more allowance for     *)
(* that week than the start amount and the days gone by allow, however     *)
(* often, in whichever order and around whichever midnight the requests    *)
(* came (tokenAllowance.ts:167-242).  A repair that writes a stale sum may *)
(* leave a balance below zero, which the next week's credit fills too: the *)
(* property is about users whose balance is not repaired.                  *)
AccrualWithinEntitlement ==
  \A u \in Holders \ Repairable, d \in Days :
    SumFunctionOnSet(accrued[u], {c \in Days : WeekOf(c) = WeekOf(d) /\ c <= d})
      <= WeeklyStart + DayInWeek(d) * Daily

(* The allowance never lifts a balance above the maximum, though the       *)
(* ledger's balance and the allowance row may disagree, as they do after   *)
(* an admin credit or a repair (tokenAllowance.ts:260-276).                *)
AllowanceKeepsMaximum ==
  [][\A u \in Holders, d \in Days :
       accrued'[u][d] > accrued[u][d] => balance'[u] <= MaxAllowance]_tokenVars

Drift(u) == balance[u] - RowSum(u)

(* ledger.ts:14 "User.tokenBalance is a cached value that MUST equal       *)
(* SUM(transactions)": no posting, allowance or synchronisation changes    *)
(* the difference of the two; only the write of a repair can, when a       *)
(* posting came between its sum and its write (ledger.ts:88).              *)
DriftOnlyByRepair ==
  [][\A u \in Holders : Drift(u)' # Drift(u) =>
       \E h \in Repairs : repair[h].op = "repair" /\ repair[h].user = u /\ repair'[h].op = "idle"]_tokenVars

-----------------------------------------------------------------------------

(* A reset link that a newer request replaced sets no password any more,   *)
(* not even for a request that had found it in order before it was         *)
(* replaced: the check, the hashing and the transaction are three awaits   *)
(* (auth.ts:555-594; auth.ts:503 "Invalidate any existing reset tokens").  *)
ReplacedLinkIsDead ==
  [][\A l \in ResetLinks :
       link[l].row = "gone" /\ account'.password = l => account.password = l]_credentialVars
============================================================================
