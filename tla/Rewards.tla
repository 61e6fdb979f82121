------------------------------ MODULE Rewards ------------------------------
(***************************************************************************)
(* The shop: rewards, their stock and their redemptions                    *)
(* (services/rewards.ts), paid in points.                                  *)
(*                                                                         *)
(* redeem runs in one transaction that holds the Reward row (FOR UPDATE)   *)
(* and the User row, so it is one step.  fulfil and cancel look at the     *)
(* redemption without a lock and write it by id later, without looking     *)
(* again: desk[d] is what the administrator's request d has read.          *)
(***************************************************************************)
EXTENDS Integers, FiniteSets, FiniteSetsExt

CONSTANTS
  Customers,    \* User rows
  Rewards,      \* ids that Reward rows may get
  Redemptions,  \* ids that Redemption rows may get
  Costs,        \* points costs an administrator may ask for
  Limits,       \* Limits[r]: the stock limits an administrator may give reward r
  StartPoints,  \* points every customer has won
  Desks,        \* administrators' requests in flight
  None          \* null

ASSUME RewardsAssumption ==
  /\ Costs \subseteq Nat \ {0}
  /\ Limits \in [Rewards -> SUBSET ((Nat \ {0}) \cup {None})]
  /\ StartPoints \in Nat
  /\ None \notin Nat \cup Customers \cup Rewards

VARIABLES
  reward,      \* the Reward table
  redemption,  \* the Redemption table
  posted,      \* PointsTransaction rows by redemption: REDEMPTION, REDEMPTION_REFUND
  points,      \* User.pointsBalance
  desk

shopVars == <<reward, redemption, posted, points, desk>>

RewardRow == [status : {"ABSENT", "ACTIVE", "INACTIVE"}, cost : Nat,
              limit : Nat \cup {None}, claimed : Int]

RedemptionRow == [status : {"ABSENT", "PENDING", "FULFILLED", "CANCELLED"},
                  user : Customers \cup {None}, reward : Rewards \cup {None}, cost : Nat]

DeskRequests == [op : {"idle"}]
           \cup [op : {"fulfil"}, id : Redemptions]
           \cup [op : {"cancel"}, id : Redemptions, limited : BOOLEAN]

ShopTypeOK ==
  /\ reward \in [Rewards -> RewardRow]
  /\ redemption \in [Redemptions -> RedemptionRow]
  /\ posted \in [Redemptions -> [debit : Nat, refund : Nat]]
  /\ points \in [Customers -> Nat]
  /\ desk \in [Desks -> DeskRequests]

-----------------------------------------------------------------------------

AtRest == [op |-> "idle"]
TakeUp(d, r) == desk[d] = AtRest /\ desk' = [desk EXCEPT ![d] = r]
LayDown(d) == desk' = [desk EXCEPT ![d] = AtRest]

ShopInit ==
  /\ reward = [r \in Rewards |-> [status |-> "ABSENT", cost |-> 0, limit |-> None, claimed |-> 0]]
  /\ redemption = [x \in Redemptions |->
                     [status |-> "ABSENT", user |-> None, reward |-> None, cost |-> 0]]
  /\ posted = [x \in Redemptions |-> [debit |-> 0, refund |-> 0]]
  /\ points = [u \in Customers |-> StartPoints]
  /\ desk = [d \in Desks |-> AtRest]

CreateReward(r, cost, limit) ==
  /\ reward[r].status = "ABSENT"
  /\ reward' = [reward EXCEPT ![r] = [status |-> "ACTIVE", cost |-> cost, limit |-> limit, claimed |-> 0]]
  /\ UNCHANGED <<redemption, posted, points, desk>>

\* Rows are never deleted, so that the row exists is all that was read.
UpdateReward(r, cost, limit, status) ==
  /\ reward[r].status # "ABSENT"
  /\ reward' = [reward EXCEPT ![r].cost = cost, ![r].limit = limit, ![r].status = status]
  /\ UNCHANGED <<redemption, posted, points, desk>>

Limited(r) == reward[r].limit # None

\* Mutant: an off-by-one in the stock check.
InStockLoose(r) == Limited(r) => reward[r].claimed <= reward[r].limit

InStock(r) == Limited(r) => reward[r].claimed < reward[r].limit

\* Mutant: the stock is not counted.
RedeemUncounted(u, r, x) ==
  LET cost == reward[r].cost
  IN  /\ redemption[x].status = "ABSENT"
      /\ reward[r].status = "ACTIVE" /\ InStock(r)
      /\ points[u] >= cost
      /\ redemption' = [redemption EXCEPT ![x] =
                          [status |-> "PENDING", user |-> u, reward |-> r, cost |-> cost]]
      /\ posted' = [posted EXCEPT ![x].debit = cost]
      /\ points' = [points EXCEPT ![u] = @ - cost]
      /\ UNCHANGED <<reward, desk>>

\* Mutant: the balance is not looked at.
RedeemOnCredit(u, r, x) ==
  LET cost == reward[r].cost
  IN  /\ redemption[x].status = "ABSENT"
      /\ reward[r].status = "ACTIVE" /\ InStock(r)
      /\ redemption' = [redemption EXCEPT ![x] =
                          [status |-> "PENDING", user |-> u, reward |-> r, cost |-> cost]]
      /\ posted' = [posted EXCEPT ![x].debit = cost]
      /\ points' = [points EXCEPT ![u] = @ - cost]
      /\ reward' = [reward EXCEPT ![r].claimed = IF Limited(r) THEN @ + 1 ELSE @]
      /\ UNCHANGED desk

Redeem(u, r, x) ==
  LET cost == reward[r].cost
  IN  /\ redemption[x].status = "ABSENT"
      /\ reward[r].status = "ACTIVE" /\ InStock(r)
      /\ points[u] >= cost
      /\ redemption' = [redemption EXCEPT ![x] =
                          [status |-> "PENDING", user |-> u, reward |-> r, cost |-> cost]]
      /\ posted' = [posted EXCEPT ![x].debit = cost]
      /\ points' = [points EXCEPT ![u] = @ - cost]
      /\ reward' = [reward EXCEPT ![r].claimed = IF Limited(r) THEN @ + 1 ELSE @]
      /\ UNCHANGED desk

ReadForFulfil(d, x) ==
  /\ redemption[x].status = "PENDING"
  /\ TakeUp(d, [op |-> "fulfil", id |-> x])
  /\ UNCHANGED <<reward, redemption, posted, points>>

WriteFulfil(d) ==
  /\ desk[d].op = "fulfil"
  /\ redemption' = [redemption EXCEPT ![desk[d].id].status = "FULFILLED"]
  /\ LayDown(d)
  /\ UNCHANGED <<reward, posted, points>>

\* The reward's stockLimit is read with the redemption.
ReadForCancel(d, x) ==
  /\ redemption[x].status = "PENDING"
  /\ TakeUp(d, [op |-> "cancel", id |-> x, limited |-> Limited(redemption[x].reward)])
  /\ UNCHANGED <<reward, redemption, posted, points>>

\* Mutant: the refund is the price of today.
CommitCancelAtPrice(d) ==
  LET x == desk[d].id
      row == redemption[x]
  IN  /\ desk[d].op = "cancel"
      /\ posted' = [posted EXCEPT ![x].refund = @ + reward[row.reward].cost]
      /\ points' = [points EXCEPT ![row.user] = @ + reward[row.reward].cost]
      /\ redemption' = [redemption EXCEPT ![x].status = "CANCELLED"]
      /\ reward' = [reward EXCEPT ![row.reward].claimed = IF desk[d].limited THEN @ - 1 ELSE @]
      /\ LayDown(d)

\* The transaction of cancel: refund, status and stock, without another look at the row.
CommitCancel(d) ==
  LET x == desk[d].id
      row == redemption[x]
  IN  /\ desk[d].op = "cancel"
      /\ posted' = [posted EXCEPT ![x].refund = @ + row.cost]
      /\ points' = [points EXCEPT ![row.user] = @ + row.cost]
      /\ redemption' = [redemption EXCEPT ![x].status = "CANCELLED"]
      /\ reward' = [reward EXCEPT ![row.reward].claimed = IF desk[d].limited THEN @ - 1 ELSE @]
      /\ LayDown(d)

\* The request fails, or its process stops, before it has written.
DropDesk(d) ==
  /\ desk[d] # AtRest
  /\ LayDown(d)
  /\ UNCHANGED <<reward, redemption, posted, points>>

ShopNext ==
  \/ \E r \in Rewards, cost \in Costs :
       \E limit \in Limits[r] :
         \/ CreateReward(r, cost, limit)
         \/ \E status \in {"ACTIVE", "INACTIVE"} : UpdateReward(r, cost, limit, status)
  \/ \E u \in Customers, r \in Rewards, x \in Redemptions : Redeem(u, r, x)
  \/ \E d \in Desks, x \in Redemptions : ReadForFulfil(d, x) \/ ReadForCancel(d, x)
  \/ \E d \in Desks : WriteFulfil(d) \/ CommitCancel(d) \/ DropDesk(d)

-----------------------------------------------------------------------------

\* The redemptions that hold an item of reward r.
Live(r) == {x \in Redemptions : /\ redemption[x].status \in {"PENDING", "FULFILLED"}
                                /\ redemption[x].reward = r}

Paid(u) == {x \in Redemptions : redemption[x].status # "ABSENT" /\ redemption[x].user = u}
============================================================================
