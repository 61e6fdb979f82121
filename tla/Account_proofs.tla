--------------------------- MODULE Account_proofs ---------------------------
(***************************************************************************)
(* Theorems about the shop, the allowance and the password of an account,  *)
(* for any number of customers, rewards, redemptions, days and requests.   *)
(* A step moves one of the three parts, so each has an invariant of its    *)
(* own; what is summed over rows follows from the lemmas of Sums_proofs.   *)
(***************************************************************************)
EXTENDS Account, FiniteSetTheorems, Sums_proofs, TLAPS

(* A step of the account moves each part by its own step or not at all.    *)
LEMMA PartsMove ==
  ASSUME [Next]_accountVars
  PROVE  /\ ShopNext \/ UNCHANGED shopVars
         /\ TokensNext \/ UNCHANGED tokenVars
         /\ CredentialsNext \/ UNCHANGED credentialVars
BY DEF Next, accountVars

-----------------------------------------------------------------------------
(* The shop *)

\* What a customer has paid for the items he holds or was given.
Net(x) == posted[x].debit - posted[x].refund
Spent(u) == SumFunctionOnSet([x \in Redemptions |-> Net(x)], Paid(u))

\* A reward that does not exist has no items, a redemption that does not exist no rows, what a
\* request of the desk has read exists, and the points are what the rows leave.
ShopInv ==
  /\ ShopTypeOK
  /\ \A r \in Rewards : reward[r].status = "ABSENT" => ~Limited(r) /\ reward[r].claimed = 0
  /\ \A x \in Redemptions :
       IF redemption[x].status = "ABSENT" THEN posted[x].debit = 0 /\ posted[x].refund = 0
       ELSE /\ redemption[x].user \in Customers /\ redemption[x].reward \in Rewards
            /\ reward[redemption[x].reward].status # "ABSENT"
  /\ \A d \in Desks : desk[d].op # "idle" => redemption[desk[d].id].status # "ABSENT"
  /\ \A u \in Customers : points[u] = StartPoints - Spent(u)

\* What StockCountsItems, NeverOversold and RedemptionMoney say of a step.
Counted(r) == IF Limited(r) THEN Surplus(r)' = Surplus(r) ELSE reward'[r].claimed = reward[r].claimed
Sold(r) == Cardinality(Live(r)') > Cardinality(Live(r)) /\ Limited(r) =>
             Cardinality(Live(r)') <= reward[r].limit \/ Surplus(r) < 0
StaysPaid(x) == PaidRight(x) => PaidRight(x)'
LatelyPaid(x) == \E d \in Desks : Answered(d) /\ Overtaken(d) /\ desk[d].id = x

ShopKept ==
  /\ \A r \in Rewards : (Counted(r) /\ Sold(r)) \/ LateAnswer(r)
  /\ \A x \in Redemptions : StaysPaid(x) \/ LatelyPaid(x)

(* The items of a reward are finitely many.                                *)
LEMMA LiveCounts ==
  ASSUME IsFiniteSet(Redemptions), NEW r \in Rewards
  PROVE  /\ Live(r) \subseteq Redemptions
         /\ IsFiniteSet(Live(r)) /\ Cardinality(Live(r)) \in Nat
         /\ \A x : Cardinality(Live(r) \cup {x}) =
                     IF x \in Live(r) THEN Cardinality(Live(r)) ELSE Cardinality(Live(r)) + 1
         /\ \A x : Cardinality(Live(r) \ {x}) =
                     IF x \in Live(r) THEN Cardinality(Live(r)) - 1 ELSE Cardinality(Live(r))
<1>1. Live(r) \subseteq Redemptions  BY DEF Live
<1>2. IsFiniteSet(Live(r))  BY <1>1, FS_Subset
<1> QED  BY <1>1, <1>2, FS_CardinalityType, FS_AddElement, FS_RemoveElement

(* What is asked of the desk names a redemption.                           *)
LEMMA DeskAsks ==
  ASSUME NEW q \in DeskRequests
  PROVE  /\ q.op \in {"idle", "fulfil", "cancel"}
         /\ q.op # "idle" => q.id \in Redemptions
         /\ q.op = "cancel" => q.limited \in BOOLEAN
         /\ q.op = "idle" => q = AtRest
BY DEF DeskRequests, AtRest

(* The table of what was paid, before and after a step, holds integers.    *)
LEMMA NetsAreInts ==
  ASSUME posted \in [Redemptions -> [debit : Nat, refund : Nat]],
         posted' \in [Redemptions -> [debit : Nat, refund : Nat]]
  PROVE  \A x \in Redemptions : Net(x) \in Int /\ Net(x)' \in Int
<1> SUFFICES ASSUME NEW x \in Redemptions  PROVE Net(x) \in Int /\ Net(x)' \in Int
  OBVIOUS
<1>1. /\ posted[x].debit \in Nat /\ posted[x].refund \in Nat
      /\ posted'[x].debit \in Nat /\ posted'[x].refund \in Nat
  OBVIOUS
<1> QED  BY <1>1 DEF Net

(* What a customer has paid grows by what is paid for one redemption, when *)
(* the others and those of other customers stay as they are.               *)
LEMMA SpentGrows ==
  ASSUME IsFiniteSet(Redemptions), NEW u \in Customers, NEW x, x \in Redemptions, NEW n, n \in Int,
         \A y \in Redemptions : Net(y) \in Int /\ Net(y)' \in Int,
         \A y \in Redemptions \ {x} : Net(y)' = Net(y),
         x \in Paid(u)', Paid(u) = Paid(u)' \/ (Paid(u) = Paid(u)' \ {x} /\ Net(x) = 0),
         Net(x)' = Net(x) + n
  PROVE  Spent(u)' = Spent(u) + n /\ Spent(u) \in Int
<1> DEFINE f == [y \in Redemptions |-> Net(y)]
           g == [y \in Redemptions |-> Net(y)']
           S == Paid(u)'
           T == Paid(u)
<1>1. S \in SUBSET Redemptions /\ T \in SUBSET S /\ IsFiniteSet(S) /\ IsFiniteSet(T)
  BY FS_Subset DEF Paid
<1>2. \A y \in S : f[y] \in Int /\ g[y] \in Int
  BY <1>1
<1>3. g[x] = f[x] + n /\ \A y \in S : y # x => g[y] = f[y]
  BY <1>1
<1>4. \A y \in S \ T : f[y] = 0
  OBVIOUS
<1>5. Spent(u)' = SumFunctionOnSet(g, S) /\ Spent(u) = SumFunctionOnSet(f, T)
  BY DEF Spent
<1>6. x \in S
  OBVIOUS
<1> HIDE DEF f, g, S, T
<1>7. SumFunctionOnSet(g, S) = SumFunctionOnSet(f, S) + (g[x] - f[x])
  BY <1>1, <1>2, <1>3, <1>6, SumGrows
<1>8. SumFunctionOnSet(f, S) = SumFunctionOnSet(f, T)
  BY <1>1, <1>2, <1>4, SumSupport
<1>9. SumFunctionOnSet(f, T) \in Int
  BY <1>1, <1>2, SumAdds
<1>10. f[x] \in Int /\ g[x] - f[x] = n
  BY <1>2, <1>3, <1>6
<1> QED  BY <1>5, <1>7, <1>8, <1>9, <1>10

(* Nothing is paid by a customer whose redemptions stay as they are.       *)
LEMMA SpentStays ==
  ASSUME NEW u \in Customers, Paid(u)' = Paid(u), \A x \in Paid(u) : Net(x)' = Net(x),
         IsFiniteSet(Redemptions), \A y \in Redemptions : Net(y) \in Int
  PROVE  Spent(u)' = Spent(u)
<1> DEFINE f == [y \in Redemptions |-> Net(y)]
           g == [y \in Redemptions |-> Net(y)']
           S == Paid(u)
<1>1. S \in SUBSET Redemptions /\ IsFiniteSet(S)
  BY FS_Subset DEF Paid
<1>2. \A y \in S : f[y] \in Int /\ g[y] = f[y]
  BY <1>1
<1>3. Spent(u)' = SumFunctionOnSet(g, S) /\ Spent(u) = SumFunctionOnSet(f, S)
  BY DEF Spent
<1> HIDE DEF f, g, S
<1> QED  BY <1>1, <1>2, <1>3, SumSame

(* Every step of the shop keeps the types, with any number of requests.    *)
LEMMA ShopTypesStep ==
  ASSUME RewardsAssumption, ShopTypeOK, ShopNext
  PROVE  ShopTypeOK'
<1> USE RewardsAssumption DEF ShopTypeOK
<1>1. ASSUME NEW r \in Rewards, NEW cost \in Costs, NEW limit \in Limits[r],
             CreateReward(r, cost, limit)
      PROVE  ShopTypeOK'
  <2>1. limit \in Nat \cup {None} /\ cost \in Nat  BY DEF RewardsAssumption
  <2> DEFINE n == [status |-> "ACTIVE", cost |-> cost, limit |-> limit, claimed |-> 0]
  <2>2. n \in RewardRow  BY <2>1 DEF RewardRow
  <2>3. reward' = [reward EXCEPT ![r] = n] /\ UNCHANGED <<redemption, posted, points, desk>>
    BY <1>1 DEF CreateReward
  <2> HIDE DEF n
  <2> QED  BY <2>2, <2>3
<1>2. ASSUME NEW r \in Rewards, NEW cost \in Costs, NEW limit \in Limits[r],
             NEW status \in {"ACTIVE", "INACTIVE"}, UpdateReward(r, cost, limit, status)
      PROVE  ShopTypeOK'
  <2>1. limit \in Nat \cup {None} /\ cost \in Nat  BY DEF RewardsAssumption
  <2> DEFINE n == [reward[r] EXCEPT !.cost = cost, !.limit = limit, !.status = status]
  <2>2. n \in RewardRow
    <3>1. reward[r] \in RewardRow  OBVIOUS
    <3> QED  BY <2>1, <3>1 DEF RewardRow
  <2>3. reward' = [reward EXCEPT ![r] = n] /\ UNCHANGED <<redemption, posted, points, desk>>
    BY <1>2 DEF UpdateReward
  <2> HIDE DEF n
  <2> QED  BY <2>2, <2>3
<1>3. ASSUME NEW u \in Customers, NEW r \in Rewards, NEW x \in Redemptions, Redeem(u, r, x)
      PROVE  ShopTypeOK'
  <2> DEFINE cost == reward[r].cost
             row == [status |-> "PENDING", user |-> u, reward |-> r, cost |-> cost]
             n == [reward[r] EXCEPT !.claimed = IF Limited(r) THEN @ + 1 ELSE @]
             p == [posted[x] EXCEPT !.debit = cost]
             left == points[u] - cost
  <2>1. reward[r] \in RewardRow /\ cost \in Nat /\ reward[r].claimed \in Int /\ points[u] \in Nat
    BY DEF RewardRow
  <2>2. row \in RedemptionRow /\ n \in RewardRow
    <3>1. row \in RedemptionRow  BY <2>1 DEF RedemptionRow
    <3>2. n \in RewardRow  BY <2>1 DEF RewardRow
    <3> QED  BY <3>1, <3>2
  <2>3. p \in [debit : Nat, refund : Nat]  BY <2>1
  <2>4. left \in Nat  BY <1>3, <2>1 DEF Redeem
  <2>5. /\ redemption' = [redemption EXCEPT ![x] = row] /\ posted' = [posted EXCEPT ![x] = p]
        /\ points' = [points EXCEPT ![u] = left] /\ reward' = [reward EXCEPT ![r] = n]
        /\ UNCHANGED desk
    BY <1>3 DEF Redeem
  <2> HIDE DEF cost, row, n, p, left
  <2> QED  BY <2>2, <2>3, <2>4, <2>5
<1>4. ASSUME NEW d \in Desks, NEW x \in Redemptions, ReadForFulfil(d, x) \/ ReadForCancel(d, x)
      PROVE  ShopTypeOK'
  <2>1. PICK q \in DeskRequests : desk' = [desk EXCEPT ![d] = q]
    <3>1. Limited(redemption[x].reward) \in BOOLEAN  BY DEF Limited
    <3> QED  BY <1>4, <3>1 DEF ReadForFulfil, ReadForCancel, TakeUp, DeskRequests
  <2> QED  BY <1>4, <2>1 DEF ReadForFulfil, ReadForCancel
<1>5. ASSUME NEW d \in Desks, DropDesk(d)
      PROVE  ShopTypeOK'
  BY <1>5 DEF DropDesk, LayDown, AtRest, DeskRequests
<1>6. ASSUME NEW d \in Desks, WriteFulfil(d)
      PROVE  ShopTypeOK'
  <2>1. desk[d].id \in Redemptions  BY <1>6, DeskAsks DEF WriteFulfil
  <2>2. desk' \in [Desks -> DeskRequests]  BY <1>6 DEF WriteFulfil, LayDown, AtRest, DeskRequests
  <2> DEFINE row == [redemption[desk[d].id] EXCEPT !.status = "FULFILLED"]
  <2>3. row \in RedemptionRow
    <3>1. redemption[desk[d].id] \in RedemptionRow  BY <2>1
    <3> QED  BY <3>1 DEF RedemptionRow
  <2>4. redemption' = [redemption EXCEPT ![desk[d].id] = row]
        /\ UNCHANGED <<reward, posted, points>>
    BY <1>6, <2>1 DEF WriteFulfil
  <2> HIDE DEF row
  <2> QED  BY <2>2, <2>3, <2>4
<1>7. ASSUME NEW d \in Desks, CommitCancel(d)
      PROVE  ShopTypeOK'
  <2>1. desk[d].id \in Redemptions  BY <1>7, DeskAsks DEF CommitCancel
  <2>2. PICK x \in Redemptions : x = desk[d].id  BY <2>1
  <2>3. PICK u : u = redemption[x].user  OBVIOUS
  <2>4. PICK r : r = redemption[x].reward  OBVIOUS
  <2>5. PICK c \in Nat : c = redemption[x].cost
    <3>1. redemption[x] \in RedemptionRow  OBVIOUS
    <3> QED  BY <3>1 DEF RedemptionRow
  <2>6. /\ posted' = [posted EXCEPT ![x].refund = @ + c]
        /\ points' = [points EXCEPT ![u] = @ + c]
        /\ redemption' = [redemption EXCEPT ![x].status = "CANCELLED"]
        /\ reward' = [reward EXCEPT ![r].claimed = IF desk[d].limited THEN @ - 1 ELSE @]
        /\ LayDown(d)
    BY <1>7, <2>2, <2>3, <2>4, <2>5 DEF CommitCancel
  <2>7. desk' \in [Desks -> DeskRequests]  BY <2>6 DEF LayDown, AtRest, DeskRequests
  <2>8. posted' \in [Redemptions -> [debit : Nat, refund : Nat]]
    <3> DEFINE p == [posted[x] EXCEPT !.refund = @ + c]
    <3>1. posted[x] \in [debit : Nat, refund : Nat] /\ posted[x].refund + c \in Nat  OBVIOUS
    <3>2. p \in [debit : Nat, refund : Nat]  BY <3>1
    <3>3. posted' = [posted EXCEPT ![x] = p]  BY <2>6
    <3> HIDE DEF p
    <3> QED  BY <3>2, <3>3
  <2>9. points' \in [Customers -> Nat]
    <3>1. CASE u \in Customers
      <4>1. points[u] + c \in Nat  BY <3>1
      <4> QED  BY <2>6, <4>1
    <3>2. CASE u \notin Customers
      <4>1. points' = points  BY <2>6, <3>2
      <4> QED  BY <4>1
    <3> QED  BY <3>1, <3>2
  <2>10. redemption' \in [Redemptions -> RedemptionRow]
    <3> DEFINE row == [redemption[x] EXCEPT !.status = "CANCELLED"]
    <3>1. row \in RedemptionRow
      <4>1. redemption[x] \in RedemptionRow  OBVIOUS
      <4> QED  BY <4>1 DEF RedemptionRow
    <3>2. redemption' = [redemption EXCEPT ![x] = row]  BY <2>6
    <3> HIDE DEF row
    <3> QED  BY <3>1, <3>2
  <2>11. reward' \in [Rewards -> RewardRow]
    <3>1. CASE r \in Rewards
      <4> DEFINE n == [reward[r] EXCEPT !.claimed = IF desk[d].limited THEN @ - 1 ELSE @]
      <4>1. reward[r] \in RewardRow /\ reward[r].claimed \in Int  BY <3>1 DEF RewardRow
      <4>2. n \in RewardRow  BY <4>1 DEF RewardRow
      <4>3. reward' = [reward EXCEPT ![r] = n]  BY <2>6
      <4> HIDE DEF n
      <4> QED  BY <4>2, <4>3
    <3>2. CASE r \notin Rewards
      <4>1. reward' = reward  BY <2>6, <3>2
      <4> QED  BY <4>1
    <3> QED  BY <3>1, <3>2
  <2> QED  BY <2>7, <2>8, <2>9, <2>10, <2>11
<1>8. CASE \E r \in Rewards, cost \in Costs :
             \E limit \in Limits[r] :
               \/ CreateReward(r, cost, limit)
               \/ \E status \in {"ACTIVE", "INACTIVE"} : UpdateReward(r, cost, limit, status)
  BY ONLY <1>1, <1>2, <1>8
<1>9. CASE \E d \in Desks : WriteFulfil(d) \/ CommitCancel(d) \/ DropDesk(d)
  BY ONLY <1>5, <1>6, <1>7, <1>9
<1> QED  BY <1>3, <1>4, <1>8, <1>9 DEF ShopNext

(* The types of the shop hold at the start.                                *)
LEMMA ShopTypesBegin ==
  ASSUME RewardsAssumption, ShopInit
  PROVE  ShopTypeOK
<1>1. reward \in [Rewards -> RewardRow]  BY DEF ShopInit, RewardRow
<1>2. redemption \in [Redemptions -> RedemptionRow]  BY DEF ShopInit, RedemptionRow
<1>3. desk \in [Desks -> DeskRequests]  BY DEF ShopInit, DeskRequests, AtRest
<1>4. posted \in [Redemptions -> [debit : Nat, refund : Nat]]  BY DEF ShopInit
<1>5. points \in [Customers -> Nat]  BY DEF ShopInit, RewardsAssumption
<1> QED  BY <1>1, <1>2, <1>3, <1>4, <1>5 DEF ShopTypeOK

\* A step that leaves the redemptions and the money alone, whatever it does to a reward's terms.
Quiet == /\ UNCHANGED <<redemption, posted, points>>
         /\ \A r \in Rewards : /\ reward'[r].claimed = reward[r].claimed
                               /\ reward[r].status # "ABSENT" => reward'[r].status # "ABSENT"
                               /\ reward'[r].status = "ABSENT" => ~Limited(r)'

(* Such a step moves no counter, item or point.                            *)
LEMMA QuietStep ==
  ASSUME IsFiniteSet(Redemptions), ShopInv, ShopTypeOK', Quiet,
         \A d \in Desks : desk'[d].op # "idle" => redemption[desk'[d].id].status # "ABSENT"
  PROVE  ShopInv' /\ ShopKept
<1>1. \A r \in Rewards : Live(r)' = Live(r)  BY DEF Live, Quiet
<1>2. \A r \in Rewards : Cardinality(Live(r)) \in Nat  BY LiveCounts
<1>3. ASSUME NEW r \in Rewards  PROVE Counted(r) /\ Sold(r)
  <2>1. Surplus(r)' = Surplus(r)  BY <1>1 DEF Surplus, Quiet
  <2>2. ~(Cardinality(Live(r)') > Cardinality(Live(r)))  BY <1>1, <1>2
  <2> QED  BY <2>1, <2>2 DEF Counted, Sold, Quiet
<1>4. \A x \in Redemptions : StaysPaid(x)  BY DEF StaysPaid, PaidRight, Quiet
<1>5. \A x \in Redemptions : Net(x) \in Int /\ Net(x)' = Net(x)
  <2>1. \A x \in Redemptions : Net(x) \in Int  BY NetsAreInts DEF ShopInv, ShopTypeOK
  <2> QED  BY <2>1 DEF Net, Quiet
<1>6. ASSUME NEW u \in Customers  PROVE points'[u] = StartPoints - Spent(u)'
  <2>1. Paid(u)' = Paid(u) /\ \A x \in Paid(u) : Net(x)' = Net(x)  BY <1>5 DEF Paid, Quiet
  <2>2. Spent(u)' = Spent(u)  BY <1>5, <2>1, SpentStays
  <2> QED  BY <2>2 DEF ShopInv, Quiet
<1>7. \A r \in Rewards : reward'[r].status = "ABSENT" => ~Limited(r)' /\ reward'[r].claimed = 0
  BY DEF ShopInv, Quiet
<1>8. \A x \in Redemptions :
        IF redemption'[x].status = "ABSENT" THEN posted'[x].debit = 0 /\ posted'[x].refund = 0
        ELSE /\ redemption'[x].user \in Customers /\ redemption'[x].reward \in Rewards
             /\ reward'[redemption'[x].reward].status # "ABSENT"
  BY DEF ShopInv, Quiet
<1>9. \A d \in Desks : desk'[d].op # "idle" => redemption'[desk'[d].id].status # "ABSENT"
  BY DEF Quiet
<1>10. ShopInv'  BY <1>6, <1>7, <1>8, <1>9 DEF ShopInv
<1> QED  BY <1>3, <1>4, <1>10 DEF ShopKept

(* Creating or changing a reward is such a step.                           *)
LEMMA TermsAreQuiet ==
  ASSUME RewardsAssumption, ShopInv,
         NEW r \in Rewards, NEW cost \in Costs, NEW limit \in Limits[r],
         \/ CreateReward(r, cost, limit)
         \/ \E status \in {"ACTIVE", "INACTIVE"} : UpdateReward(r, cost, limit, status)
  PROVE  Quiet /\ UNCHANGED desk
<1>1. UNCHANGED <<redemption, posted, points, desk>>  BY DEF CreateReward, UpdateReward
<1>2. reward[r] \in RewardRow /\ reward \in [Rewards -> RewardRow]
  BY DEF ShopInv, ShopTypeOK
<1> DEFINE NewTerms == \E n : /\ reward' = [reward EXCEPT ![r] = n] /\ n.claimed = reward[r].claimed
                              /\ n.status \in {"ACTIVE", "INACTIVE"}
<1>0. NewTerms
  <2>1. CASE CreateReward(r, cost, limit)
    <3> DEFINE n == [status |-> "ACTIVE", cost |-> cost, limit |-> limit, claimed |-> 0]
    <3>1. n.claimed = reward[r].claimed /\ n.status = "ACTIVE"
      BY <2>1 DEF CreateReward, ShopInv
    <3>2. reward' = [reward EXCEPT ![r] = n]  BY <2>1 DEF CreateReward
    <3> HIDE DEF n
    <3> QED  BY <3>1, <3>2
  <2>2. ASSUME NEW status \in {"ACTIVE", "INACTIVE"}, UpdateReward(r, cost, limit, status)
        PROVE  NewTerms
    <3> DEFINE n == [reward[r] EXCEPT !.cost = cost, !.limit = limit, !.status = status]
    <3>1. n.claimed = reward[r].claimed /\ n.status = status  BY <1>2 DEF RewardRow
    <3>2. reward' = [reward EXCEPT ![r] = n]  BY <1>2, <2>2 DEF UpdateReward
    <3> QED  BY <3>1, <3>2
  <2> QED  BY <2>1, <2>2
<1>3. PICK n : /\ reward' = [reward EXCEPT ![r] = n] /\ n.claimed = reward[r].claimed
               /\ n.status \in {"ACTIVE", "INACTIVE"}
  BY <1>0
<1>4. reward'[r] = n /\ \A k \in Rewards \ {r} : reward'[k] = reward[k]
  BY <1>2, <1>3
<1>5. ASSUME NEW k \in Rewards
      PROVE  /\ reward'[k].claimed = reward[k].claimed
             /\ reward[k].status # "ABSENT" => reward'[k].status # "ABSENT"
             /\ reward'[k].status = "ABSENT" => ~Limited(k)'
  <2>1. CASE k = r  BY <1>3, <1>4, <2>1
  <2>2. CASE k # r  BY <1>4, <2>2 DEF Limited, ShopInv
  <2> QED  BY <2>1, <2>2
<1> QED  BY <1>1, <1>5 DEF Quiet

(* So is what a request of the desk does before it writes.                 *)
LEMMA DeskIsQuiet ==
  ASSUME ShopInv, ShopTypeOK', NEW d \in Desks,
         \/ \E x \in Redemptions : ReadForFulfil(d, x) \/ ReadForCancel(d, x)
         \/ DropDesk(d)
  PROVE  /\ Quiet
         /\ \A e \in Desks : desk'[e].op # "idle" => redemption[desk'[e].id].status # "ABSENT"
<1>1. UNCHANGED <<reward, redemption, posted, points>>
  BY DEF ReadForFulfil, ReadForCancel, DropDesk
<1> DEFINE Turned == \E q : /\ desk' = [desk EXCEPT ![d] = q]
                            /\ q.op # "idle" => redemption[q.id].status = "PENDING"
<1>0. Turned
  <2>1. ASSUME NEW x \in Redemptions, ReadForFulfil(d, x)  PROVE Turned
    <3> DEFINE q == [op |-> "fulfil", id |-> x]
    <3>1. desk' = [desk EXCEPT ![d] = q] /\ redemption[q.id].status = "PENDING"
      BY <2>1 DEF ReadForFulfil, TakeUp
    <3> QED  BY <3>1
  <2>2. ASSUME NEW x \in Redemptions, ReadForCancel(d, x)  PROVE Turned
    <3> DEFINE q == [op |-> "cancel", id |-> x, limited |-> Limited(redemption[x].reward)]
    <3>1. desk' = [desk EXCEPT ![d] = q] /\ redemption[q.id].status = "PENDING"
      BY <2>2 DEF ReadForCancel, TakeUp
    <3> QED  BY <3>1
  <2>3. CASE DropDesk(d)
    <3>1. desk' = [desk EXCEPT ![d] = AtRest] /\ AtRest.op = "idle"
      BY <2>3 DEF DropDesk, LayDown, AtRest
    <3> QED  BY <3>1
  <2> QED  BY <2>1, <2>2, <2>3
<1>2. PICK q : /\ desk' = [desk EXCEPT ![d] = q]
               /\ q.op # "idle" => redemption[q.id].status = "PENDING"
  BY <1>0
<1>3. desk \in [Desks -> DeskRequests]  BY DEF ShopInv, ShopTypeOK
<1>4. \A e \in Desks : desk'[e].op # "idle" => redemption[desk'[e].id].status # "ABSENT"
  BY <1>2, <1>3 DEF ShopInv
<1>5. Quiet  BY <1>1 DEF Quiet, ShopInv, Limited
<1> QED  BY <1>4, <1>5

(* A redemption gives out an item that the counter counts, within a limit  *)
(* that the counter knows, and is paid by the customer who makes it.       *)
LEMMA RedeemKeeps ==
  ASSUME IsFiniteSet(Redemptions), RewardsAssumption, ShopInv, ShopTypeOK',
         NEW u, u \in Customers, NEW r \in Rewards, NEW x, x \in Redemptions, Redeem(u, r, x)
  PROVE  ShopInv' /\ ShopKept
<1> DEFINE c == reward[r].cost
           row == [status |-> "PENDING", user |-> u, reward |-> r, cost |-> c]
           n == [reward[r] EXCEPT !.claimed = IF Limited(r) THEN @ + 1 ELSE @]
<1>1. /\ ShopTypeOK /\ redemption[x].status = "ABSENT" /\ UNCHANGED desk
      /\ reward[r].status = "ACTIVE" /\ InStock(r)
      /\ redemption' = [redemption EXCEPT ![x] = row] /\ posted' = [posted EXCEPT ![x].debit = c]
      /\ points' = [points EXCEPT ![u] = @ - c] /\ reward' = [reward EXCEPT ![r] = n]
  BY DEF ShopInv, Redeem
<1>2. reward[r] \in RewardRow /\ c \in Nat /\ reward[r].claimed \in Int
  BY <1>1 DEF ShopTypeOK, RewardRow
<1>3. /\ n.status = reward[r].status /\ n.limit = reward[r].limit
      /\ n.claimed = IF Limited(r) THEN reward[r].claimed + 1 ELSE reward[r].claimed
  BY <1>2 DEF RewardRow
<1>4. redemption'[x] = row /\ \A y \in Redemptions \ {x} : redemption'[y] = redemption[y]
  BY <1>1 DEF ShopTypeOK
<1>5. posted[x] \in [debit : Nat, refund : Nat] /\ posted[x].debit = 0 /\ posted[x].refund = 0
  BY <1>1 DEF ShopInv, ShopTypeOK
<1>6. /\ posted'[x].debit = c /\ posted'[x].refund = 0
      /\ \A y \in Redemptions \ {x} : posted'[y] = posted[y]
  BY <1>1, <1>5 DEF ShopTypeOK
<1>7. row.status = "PENDING" /\ row.user = u /\ row.cost = c /\ row.reward = r
  OBVIOUS
<1> HIDE DEF c, row, n
<1>8. reward'[r] = n /\ \A k \in Rewards \ {r} : reward'[k] = reward[k]
  BY <1>1 DEF ShopTypeOK
<1>9. \A y \in Redemptions : Net(y) \in Int /\ Net(y)' \in Int
  BY <1>1, NetsAreInts DEF ShopTypeOK
<1>10. Net(x) = 0 /\ Net(x)' = c /\ \A y \in Redemptions \ {x} : Net(y)' = Net(y)
  BY <1>2, <1>5, <1>6 DEF Net
<1>11. ASSUME NEW k \in Rewards  PROVE Counted(k) /\ Sold(k)
  <2>1. Cardinality(Live(k)) \in Nat  BY LiveCounts
  <2>2. CASE k = r
    <3>1. Live(r)' = Live(r) \cup {x} /\ x \notin Live(r)  BY <1>1, <1>4, <1>7 DEF Live
    <3>2. Cardinality(Live(r)') = Cardinality(Live(r)) + 1  BY <3>1, LiveCounts
    <3>3. Counted(r)
      BY <1>2, <1>3, <1>8, <2>1, <2>2, <3>2 DEF Counted, Surplus
    <3>4. ASSUME Limited(r)
          PROVE  Cardinality(Live(r)') <= reward[r].limit \/ Surplus(r) < 0
      <4>1. reward[r].limit \in Nat  BY <1>2, <3>4 DEF RewardRow, Limited
      <4>2. reward[r].claimed < reward[r].limit  BY <1>1, <3>4 DEF InStock
      <4> QED  BY <1>2, <2>1, <2>2, <3>2, <4>1, <4>2 DEF Surplus
    <3> QED  BY <2>2, <3>3, <3>4 DEF Sold
  <2>3. CASE k # r
    <3>1. Live(k)' = Live(k)  BY <1>1, <1>4, <1>7, <2>3 DEF Live
    <3>2. reward'[k] = reward[k]  BY <1>8, <2>3
    <3>3. ~(Cardinality(Live(k)') > Cardinality(Live(k)))  BY <2>1, <3>1
    <3>4. Surplus(k)' = Surplus(k)  BY <3>1, <3>2 DEF Surplus
    <3> QED  BY <3>2, <3>3, <3>4 DEF Counted, Sold
  <2> QED  BY <2>2, <2>3
<1>12. ASSUME NEW y \in Redemptions  PROVE StaysPaid(y)
  <2>1. CASE y = x  BY <1>4, <1>6, <1>7, <2>1 DEF StaysPaid, PaidRight
  <2>2. CASE y # x  BY <1>4, <1>6, <2>2 DEF StaysPaid, PaidRight
  <2> QED  BY <2>1, <2>2
<1>13. Paid(u)' = Paid(u) \cup {x} /\ x \notin Paid(u)
  BY <1>1, <1>4, <1>7 DEF Paid
<1>14. ASSUME NEW v \in Customers  PROVE points'[v] = StartPoints - Spent(v)'
  <2>1. points[v] = StartPoints - Spent(v) /\ points[v] \in Nat /\ points[u] \in Nat
    BY DEF ShopInv, ShopTypeOK
  <2>2. CASE v = u
    <3>1. Paid(u) = Paid(u)' \ {x} /\ x \in Paid(u)'  BY <1>13
    <3>2. Net(x)' = Net(x) + c /\ c \in Int  BY <1>2, <1>10
    <3>3. Spent(u)' = Spent(u) + c /\ Spent(u) \in Int
      BY <3>1, <3>2, <1>9, <1>10, SpentGrows
    <3>4. points'[u] = points[u] - c  BY <1>1, <2>2 DEF ShopTypeOK
    <3> QED  BY <2>1, <2>2, <3>2, <3>3, <3>4, RewardsAssumption DEF RewardsAssumption
  <2>3. CASE v # u
    <3>1. \A y \in Redemptions : y \in Paid(v)' <=> y \in Paid(v)
      BY <1>1, <1>4, <1>7, <2>3 DEF Paid
    <3>2. Paid(v)' = Paid(v)  BY <3>1 DEF Paid
    <3>3. \A y \in Paid(v) : Net(y)' = Net(y)  BY <1>1, <1>10 DEF Paid
    <3>4. Spent(v)' = Spent(v)  BY <1>9, <3>2, <3>3, SpentStays
    <3>5. points'[v] = points[v]  BY <1>1, <2>3 DEF ShopTypeOK
    <3> QED  BY <2>1, <3>4, <3>5
  <2> QED  BY <2>2, <2>3
<1>15. \A k \in Rewards : /\ reward'[k].status = "ABSENT" <=> reward[k].status = "ABSENT"
                          /\ reward'[k].status = "ABSENT" => ~Limited(k)' /\ reward'[k].claimed = 0
  <2> SUFFICES ASSUME NEW k \in Rewards
               PROVE  /\ reward'[k].status = "ABSENT" <=> reward[k].status = "ABSENT"
                      /\ reward'[k].status = "ABSENT" => ~Limited(k)' /\ reward'[k].claimed = 0
    OBVIOUS
  <2>1. CASE k = r  BY <1>1, <1>3, <1>8, <2>1
  <2>2. CASE k # r  BY <1>8, <2>2 DEF ShopInv, Limited
  <2> QED  BY <2>1, <2>2
<1>16. ASSUME NEW y \in Redemptions
       PROVE  IF redemption'[y].status = "ABSENT" THEN posted'[y].debit = 0 /\ posted'[y].refund = 0
              ELSE /\ redemption'[y].user \in Customers /\ redemption'[y].reward \in Rewards
                   /\ reward'[redemption'[y].reward].status # "ABSENT"
  <2>1. CASE y = x  BY <1>1, <1>4, <1>7, <1>15, <2>1
  <2>2. CASE y # x  BY <1>4, <1>6, <1>15, <2>2 DEF ShopInv
  <2> QED  BY <2>1, <2>2
<1>17. ASSUME NEW d \in Desks, desk'[d].op # "idle"
       PROVE  redemption'[desk'[d].id].status # "ABSENT"
  <2>1. desk[d].id \in Redemptions /\ redemption[desk[d].id].status # "ABSENT"
    BY <1>1, <1>17, DeskAsks DEF ShopInv, ShopTypeOK
  <2> QED  BY <1>1, <1>4, <2>1
<1>18. ShopInv'  BY <1>14, <1>15, <1>16, <1>17 DEF ShopInv
<1> QED  BY <1>11, <1>12, <1>18 DEF ShopKept

(* What a request of the desk that writes has read, and that it ends.      *)
LEMMA DeskWrites ==
  ASSUME ShopInv, NEW d \in Desks, WriteFulfil(d) \/ CommitCancel(d)
  PROVE  /\ desk[d].id \in Redemptions /\ redemption[desk[d].id].status # "ABSENT"
         /\ redemption[desk[d].id].reward \in Rewards
         /\ redemption[desk[d].id].user \in Customers
         /\ Answered(d)
         /\ \A e \in Desks : desk'[e] = IF e = d THEN AtRest ELSE desk[e]
<1>1. desk[d].op # "idle" /\ desk' = [desk EXCEPT ![d] = AtRest]
  BY DEF WriteFulfil, CommitCancel, LayDown
<1>2. desk \in [Desks -> DeskRequests]  BY DEF ShopInv, ShopTypeOK
<1>3. desk[d].id \in Redemptions /\ redemption[desk[d].id].status # "ABSENT"
  BY <1>1, <1>2, DeskAsks DEF ShopInv
<1>4. desk[d] # AtRest /\ desk'[d] = AtRest  BY <1>1, <1>2 DEF AtRest
<1> QED  BY <1>1, <1>2, <1>3, <1>4 DEF ShopInv, Answered

(* The two writes of the desk give redemption x another status and keep    *)
(* the others.                                                             *)
LEMMA DeskKeeps ==
  ASSUME IsFiniteSet(Redemptions), RewardsAssumption, ShopInv, ShopTypeOK',
         NEW d \in Desks, WriteFulfil(d) \/ CommitCancel(d)
  PROVE  ShopInv' /\ ShopKept
<1>0. /\ desk[d].id \in Redemptions /\ redemption[desk[d].id].status # "ABSENT"
      /\ redemption[desk[d].id].reward \in Rewards /\ redemption[desk[d].id].user \in Customers
      /\ Answered(d) /\ \A e \in Desks : desk'[e] = IF e = d THEN AtRest ELSE desk[e]
  BY DeskWrites
<1>a. ASSUME NEW x, x \in Redemptions, x = desk[d].id,
             NEW u, u \in Customers, u = redemption[x].user,
             NEW r, r \in Rewards, r = redemption[x].reward
      PROVE  ShopInv' /\ ShopKept
  <2> DEFINE cancel == desk[d].op = "cancel"
             c == IF cancel THEN redemption[x].cost ELSE 0
             less == IF cancel /\ desk[d].limited THEN 1 ELSE 0
             new == IF cancel THEN "CANCELLED" ELSE "FULFILLED"
             row == [redemption[x] EXCEPT !.status = new]
             n == [reward[r] EXCEPT !.claimed = @ - less]
             p == [posted[x] EXCEPT !.refund = @ + c]
  <2>1. /\ ShopTypeOK /\ redemption[x] \in RedemptionRow /\ reward[r] \in RewardRow
        /\ posted[x] \in [debit : Nat, refund : Nat] /\ points[u] \in Nat
        /\ redemption[x].status # "ABSENT"
    BY <1>0, <1>a DEF ShopInv, ShopTypeOK
  <2>2. /\ c \in Nat /\ less \in {0, 1} /\ reward[r].claimed \in Int
        /\ posted[x].refund \in Nat /\ posted[x].debit \in Nat
    BY <2>1 DEF RedemptionRow, RewardRow
  <2>3. /\ row.status = new /\ row.user = u /\ row.reward = r /\ row.cost = redemption[x].cost
        /\ n.status = reward[r].status /\ n.limit = reward[r].limit
        /\ n.claimed = reward[r].claimed - less
        /\ p.debit = posted[x].debit /\ p.refund = posted[x].refund + c
    BY <1>a, <2>1 DEF RedemptionRow, RewardRow
  <2>4. /\ redemption' = [redemption EXCEPT ![x] = row]
        /\ reward' = [reward EXCEPT ![r] = n]
        /\ posted' = [posted EXCEPT ![x] = p]
        /\ points' = [points EXCEPT ![u] = @ + c]
    <3>1. CASE CommitCancel(d)
      <4>1. cancel  BY <3>1 DEF CommitCancel
      <4>2. redemption' = [redemption EXCEPT ![x] = row]
        BY <1>a, <2>1, <3>1, <4>1 DEF CommitCancel, ShopTypeOK
      <4>3. reward' = [reward EXCEPT ![r].claimed = IF desk[d].limited THEN @ - 1 ELSE @]
        BY <1>a, <3>1 DEF CommitCancel
      <4>4. n = [reward[r] EXCEPT !.claimed = IF desk[d].limited THEN @ - 1 ELSE @]
        BY <2>1, <4>1 DEF RewardRow
      <4>5. reward' = [reward EXCEPT ![r] = n]  BY <4>3, <4>4
      <4>6. posted' = [posted EXCEPT ![x] = p] /\ points' = [points EXCEPT ![u] = @ + c]
        BY <1>a, <3>1, <4>1 DEF CommitCancel
      <4> QED  BY <4>2, <4>5, <4>6
    <3>2. CASE WriteFulfil(d)
      <4>1. ~cancel /\ UNCHANGED <<reward, posted, points>>  BY <3>2 DEF WriteFulfil
      <4>2. redemption' = [redemption EXCEPT ![x] = row]
        BY <1>a, <2>1, <3>2, <4>1 DEF WriteFulfil, ShopTypeOK
      <4>3. n = reward[r]  BY <2>1, <2>2, <4>1 DEF RewardRow
      <4>4. p = posted[x]  BY <2>1, <2>2, <4>1
      <4>5. points[u] + c = points[u]  BY <2>1, <4>1
      <4>6. /\ reward = [reward EXCEPT ![r] = n] /\ posted = [posted EXCEPT ![x] = p]
            /\ points = [points EXCEPT ![u] = @ + c]
        BY <1>a, <2>1, <4>3, <4>4, <4>5 DEF ShopTypeOK
      <4> QED  BY <4>1, <4>2, <4>6
    <3> QED  BY <3>1, <3>2
  <2>5. new \in {"FULFILLED", "CANCELLED"} /\ (new = "CANCELLED" <=> cancel)
    OBVIOUS
  <2> HIDE DEF row, n, p, new, c, less
  <2>6. /\ redemption'[x] = row /\ \A y \in Redemptions \ {x} : redemption'[y] = redemption[y]
        /\ reward'[r] = n /\ \A k \in Rewards \ {r} : reward'[k] = reward[k]
        /\ posted'[x] = p /\ \A y \in Redemptions \ {x} : posted'[y] = posted[y]
    BY <1>a, <2>1, <2>4 DEF ShopTypeOK
  <2>7. \A y \in Redemptions : Net(y) \in Int /\ Net(y)' \in Int
    BY <2>1, NetsAreInts DEF ShopTypeOK
  <2>8. Net(x)' = Net(x) + (0 - c) /\ \A y \in Redemptions \ {x} : Net(y)' = Net(y)
    BY <2>2, <2>3, <2>6 DEF Net
  <2>9. ASSUME NEW k \in Rewards  PROVE (Counted(k) /\ Sold(k)) \/ LateAnswer(k)
    <3>1. Cardinality(Live(k)) \in Nat  BY LiveCounts
    <3>2. CASE k # r
      <4>1. \A y \in Redemptions : y \in Live(k)' <=> y \in Live(k)
        BY <1>a, <2>3, <2>6, <3>2 DEF Live
      <4>2. Live(k)' = Live(k)  BY <4>1 DEF Live
      <4>3. reward'[k] = reward[k]  BY <2>6, <3>2
      <4>4. ~(Cardinality(Live(k)') > Cardinality(Live(k)))  BY <3>1, <4>2
      <4>5. Surplus(k)' = Surplus(k)  BY <4>2, <4>3 DEF Surplus
      <4> QED  BY <4>3, <4>4, <4>5 DEF Counted, Sold
    <3>3. CASE k = r /\ Outdated(d)
      BY <1>0, <1>a, <3>3 DEF LateAnswer
    <3>4. CASE k = r /\ ~Outdated(d)
      <4>1. desk[d] # AtRest /\ redemption[x].status = "PENDING"
        BY <1>0, <1>a, <3>4 DEF Outdated, Overtaken, Answered
      <4>2. cancel => (desk[d].limited = Limited(r))
        BY <1>a, <3>4 DEF Outdated
      <4>3. x \in Live(r)  BY <1>a, <4>1 DEF Live
      <4>4. CASE cancel
        <5>1. \A y \in Redemptions : y \in Live(r)' <=> y \in Live(r) /\ y # x
          BY <1>a, <2>3, <2>5, <2>6, <4>4 DEF Live
        <5>2. Live(r)' = Live(r) \ {x}  BY <5>1 DEF Live
        <5>3. Cardinality(Live(r)') = Cardinality(Live(r)) - 1  BY <1>a, <4>3, <5>2, LiveCounts
        <5>4. Limited(r) => less = 1  BY <4>2, <4>4 DEF less
        <5>5. ~Limited(r) => less = 0  BY <4>2, <4>4 DEF less
        <5>6. Counted(r)
          BY <2>2, <2>3, <2>6, <3>1, <3>4, <5>3, <5>4, <5>5 DEF Counted, Surplus
        <5>7. ~(Cardinality(Live(r)') > Cardinality(Live(r)))  BY <3>1, <3>4, <5>3
        <5> QED  BY <3>4, <5>6, <5>7 DEF Sold
      <4>5. CASE ~cancel
        <5>1. \A y \in Redemptions : y \in Live(r)' <=> y \in Live(r)
          BY <1>a, <2>3, <2>5, <2>6, <4>1, <4>5 DEF Live
        <5>2. Live(r)' = Live(r)  BY <5>1 DEF Live
        <5>3. less = 0  BY <4>5 DEF less
        <5>4. reward'[r].claimed = reward[r].claimed  BY <2>2, <2>3, <2>6, <5>3
        <5>5. Counted(r)  BY <5>2, <5>4 DEF Counted, Surplus
        <5>6. ~(Cardinality(Live(r)') > Cardinality(Live(r)))  BY <3>1, <3>4, <5>2
        <5> QED  BY <3>4, <5>5, <5>6 DEF Sold
      <4> QED  BY <4>4, <4>5
    <3> QED  BY <3>2, <3>3, <3>4
  <2>10. ASSUME NEW y \in Redemptions  PROVE StaysPaid(y) \/ LatelyPaid(y)
    <3>1. CASE y # x  BY <2>6, <3>1 DEF StaysPaid, PaidRight
    <3>2. CASE y = x /\ Overtaken(d)  BY <1>0, <1>a, <3>2 DEF LatelyPaid
    <3>3. CASE y = x /\ ~Overtaken(d)
      <4>1. redemption[x].status = "PENDING"
        BY <1>0, <1>a, <3>3 DEF Overtaken, Answered
      <4>2. redemption'[x].status = new /\ redemption'[x].cost = redemption[x].cost
        BY <2>3, <2>6
      <4>3. posted'[x].debit = posted[x].debit /\ posted'[x].refund = posted[x].refund + c
        BY <2>3, <2>6
      <4>4. redemption[x].cost \in Nat  BY <2>1 DEF RedemptionRow
      <4>5. c = IF new = "CANCELLED" THEN redemption[x].cost ELSE 0  BY <2>5 DEF c
      <4> QED  BY <2>2, <2>5, <3>3, <4>1, <4>2, <4>3, <4>4, <4>5 DEF StaysPaid, PaidRight
    <3> QED  BY <3>1, <3>2, <3>3
  <2>11. \A v \in Customers : Paid(v)' = Paid(v)
    <3> SUFFICES ASSUME NEW v \in Customers  PROVE Paid(v)' = Paid(v)
      OBVIOUS
    <3>1. \A y \in Redemptions : y \in Paid(v)' <=> y \in Paid(v)
      BY <1>a, <2>1, <2>3, <2>5, <2>6 DEF Paid
    <3> QED  BY <3>1 DEF Paid
  <2>12. x \in Paid(u)  BY <1>a, <2>1 DEF Paid
  <2>13. ASSUME NEW v \in Customers  PROVE points'[v] = StartPoints - Spent(v)'
    <3>1. points[v] = StartPoints - Spent(v) /\ points[v] \in Nat
      BY DEF ShopInv, ShopTypeOK
    <3>2. CASE v = u
      <4>1. 0 - c \in Int  BY <2>2
      <4>2. Spent(u)' = Spent(u) + (0 - c) /\ Spent(u) \in Int
        BY <1>a, <2>7, <2>8, <2>11, <2>12, <4>1, SpentGrows
      <4>3. points'[u] = points[u] + c  BY <1>a, <2>1, <2>4 DEF ShopTypeOK
      <4> QED  BY <2>2, <3>1, <3>2, <4>2, <4>3, RewardsAssumption DEF RewardsAssumption
    <3>3. CASE v # u
      <4>1. \A y \in Paid(v) : y # x  BY <1>a, <3>3 DEF Paid
      <4>2. \A y \in Paid(v) : Net(y)' = Net(y)  BY <2>8, <4>1 DEF Paid
      <4>3. Spent(v)' = Spent(v)  BY <2>7, <2>11, <4>2, SpentStays
      <4>4. points'[v] = points[v]  BY <2>1, <2>4, <3>3 DEF ShopTypeOK
      <4> QED  BY <3>1, <4>3, <4>4
    <3> QED  BY <3>2, <3>3
  <2>14. \A k \in Rewards : /\ reward'[k].status = reward[k].status
                            /\ reward'[k].limit = reward[k].limit
    BY <2>3, <2>6
  <2>15. reward[r].status # "ABSENT"  BY <1>a, <2>1 DEF ShopInv
  <2>16. ASSUME NEW k \in Rewards, reward'[k].status = "ABSENT"
         PROVE  ~Limited(k)' /\ reward'[k].claimed = 0
    <3>1. k # r /\ reward[k].status = "ABSENT"  BY <2>14, <2>15, <2>16
    <3>2. reward'[k] = reward[k]  BY <2>6, <3>1
    <3> QED  BY <3>1, <3>2 DEF ShopInv, Limited
  <2>17. ASSUME NEW y \in Redemptions
         PROVE  IF redemption'[y].status = "ABSENT" THEN posted'[y].debit = 0 /\ posted'[y].refund = 0
                ELSE /\ redemption'[y].user \in Customers /\ redemption'[y].reward \in Rewards
                     /\ reward'[redemption'[y].reward].status # "ABSENT"
    <3>1. CASE y = x  BY <1>a, <2>3, <2>5, <2>6, <2>14, <2>15, <3>1
    <3>2. CASE y # x  BY <2>6, <2>14, <3>2 DEF ShopInv
    <3> QED  BY <3>1, <3>2
  <2>18. ASSUME NEW e \in Desks, desk'[e].op # "idle"
         PROVE  redemption'[desk'[e].id].status # "ABSENT"
    <3>1. desk'[e] = desk[e]  BY <1>0, <2>18 DEF AtRest
    <3>2. desk[e].id \in Redemptions /\ redemption[desk[e].id].status # "ABSENT"
      BY <2>1, <2>18, <3>1, DeskAsks DEF ShopInv, ShopTypeOK
    <3> QED  BY <2>3, <2>5, <2>6, <3>1, <3>2
  <2>19. ShopInv'  BY <2>13, <2>16, <2>17, <2>18 DEF ShopInv
  <2> QED  BY <2>9, <2>10, <2>19 DEF ShopKept
<1> QED  BY <1>0, <1>a

(* Every step of the shop keeps what the step properties rest on.          *)
LEMMA ShopStep ==
  ASSUME IsFiniteSet(Redemptions), RewardsAssumption, ShopInv, ShopNext
  PROVE  ShopInv' /\ ShopKept
<1>0. ShopTypeOK'  BY ShopTypesStep DEF ShopInv
<1>1. ASSUME NEW r \in Rewards, NEW cost \in Costs, NEW limit \in Limits[r],
             \/ CreateReward(r, cost, limit)
             \/ \E status \in {"ACTIVE", "INACTIVE"} : UpdateReward(r, cost, limit, status)
      PROVE  ShopInv' /\ ShopKept
  <2>1. Quiet /\ UNCHANGED desk  BY <1>1, TermsAreQuiet
  <2>2. \A d \in Desks : desk'[d].op # "idle" => redemption[desk'[d].id].status # "ABSENT"
    BY <2>1 DEF ShopInv
  <2> QED  BY <1>0, <2>1, <2>2, QuietStep
<1>2. ASSUME NEW u \in Customers, NEW r \in Rewards, NEW x \in Redemptions, Redeem(u, r, x)
      PROVE  ShopInv' /\ ShopKept
  BY <1>0, <1>2, RedeemKeeps
<1>3. ASSUME NEW d \in Desks,
             \/ \E x \in Redemptions : ReadForFulfil(d, x) \/ ReadForCancel(d, x)
             \/ DropDesk(d)
      PROVE  ShopInv' /\ ShopKept
  BY <1>0, <1>3, DeskIsQuiet, QuietStep
<1>4. ASSUME NEW d \in Desks, WriteFulfil(d) \/ CommitCancel(d)
      PROVE  ShopInv' /\ ShopKept
  BY <1>0, <1>4, DeskKeeps
<1>5. CASE \E r \in Rewards, cost \in Costs :
             \E limit \in Limits[r] :
               \/ CreateReward(r, cost, limit)
               \/ \E status \in {"ACTIVE", "INACTIVE"} : UpdateReward(r, cost, limit, status)
  BY ONLY <1>1, <1>5
<1>6. CASE \E d \in Desks, x \in Redemptions : ReadForFulfil(d, x) \/ ReadForCancel(d, x)
  BY ONLY <1>3, <1>6
<1>7. CASE \E d \in Desks : WriteFulfil(d) \/ CommitCancel(d) \/ DropDesk(d)
  BY ONLY <1>3, <1>4, <1>7
<1> QED  BY <1>2, <1>5, <1>6, <1>7 DEF ShopNext

(* The shop begins without rewards, redemptions, rows and requests.        *)
LEMMA ShopBegins ==
  ASSUME RewardsAssumption, ShopInit
  PROVE  ShopInv
<1>1. ShopTypeOK  BY ShopTypesBegin
<1>2. /\ \A r \in Rewards : reward[r].limit = None /\ reward[r].claimed = 0
      /\ \A x \in Redemptions : redemption[x].status = "ABSENT"
      /\ \A x \in Redemptions : posted[x].debit = 0 /\ posted[x].refund = 0
      /\ \A d \in Desks : desk[d].op = "idle"
      /\ \A u \in Customers : points[u] = StartPoints
  BY DEF ShopInit, AtRest
<1>3. ASSUME NEW u \in Customers  PROVE points[u] = StartPoints - Spent(u)
  <2>1. Paid(u) = {}  BY <1>2 DEF Paid
  <2>2. SumFunctionOnSet([x \in Redemptions |-> Net(x)], {}) = 0
    <3> DEFINE f == [x \in Redemptions |-> Net(x)]
    <3>1. IsFiniteSet({}) /\ \A x \in {} : f[x] \in Int  BY FS_EmptySet
    <3> HIDE DEF f
    <3>2. SumFunctionOnSet(f, {}) = 0  BY <3>1, SumAdds
    <3> QED  BY <3>2 DEF f
  <2>3. Spent(u) = 0  BY <2>1, <2>2 DEF Spent
  <2> QED  BY <1>2, <2>3 DEF RewardsAssumption
<1> QED  BY <1>1, <1>2, <1>3 DEF ShopInv, Limited

(* Through every step of the account the invariant holds and the shop      *)
(* keeps its counters, its limits and its money.                           *)
LEMMA ShopStays ==
  ASSUME IsFiniteSet(Redemptions), ShopInv, [Next]_accountVars
  PROVE  ShopInv' /\ [ShopKept]_shopVars
<1>1. CASE ShopNext  BY <1>1, ShopStep, RewardsAssumption
<1>2. CASE UNCHANGED shopVars
  BY <1>2 DEF ShopInv, ShopTypeOK, Spent, Net, Paid, Limited, shopVars
<1> QED  BY <1>1, <1>2, PartsMove

(* The counter of a limited reward follows its items through every step of *)
(* any number of customers and administrators, whatever limits are set,    *)
(* raised, lowered or removed meanwhile, but for one: the answer of a      *)
(* request that read a pending redemption, or whether its reward was       *)
(* limited, and is outdated (rewards.ts:172, 341-370).                     *)
THEOREM StockIsCounted ==
  ASSUME IsFiniteSet(Redemptions)
  PROVE  Spec => StockCountsItems
<1> DEFINE Step == \A r \in Rewards :
             \/ IF Limited(r) THEN Surplus(r)' = Surplus(r) ELSE reward'[r].claimed = reward[r].claimed
             \/ LateAnswer(r)
<1>1. Init => ShopInv  BY ShopBegins, RewardsAssumption DEF Init
<1>2. ShopInv /\ [Next]_accountVars => ShopInv' /\ [ShopKept]_shopVars  BY ShopStays
<1>3. ShopKept => Step  BY DEF ShopKept, Counted
<1>4. ShopInv /\ [Next]_accountVars => ShopInv' /\ [Step]_shopVars  BY <1>2, <1>3
<1> QED  BY <1>1, <1>4, PTL DEF Spec, StockCountsItems

(* No redemption lifts the items held above the limit that stands when it  *)
(* is made, unless the counter is behind the items already: the check is   *)
(* made on the counter (rewards.ts:134-180), so it is worth what the       *)
(* counter is, and StockIsCounted says which steps may leave it behind.    *)
THEOREM ShopNeverOversells ==
  ASSUME IsFiniteSet(Redemptions)
  PROVE  Spec => NeverOversold
<1> DEFINE Step == \A r \in Rewards :
             Cardinality(Live(r)') > Cardinality(Live(r)) /\ Limited(r) =>
               \/ Cardinality(Live(r)') <= reward[r].limit
               \/ Surplus(r) < 0
               \/ LateAnswer(r)
<1>1. Init => ShopInv  BY ShopBegins, RewardsAssumption DEF Init
<1>2. ShopInv /\ [Next]_accountVars => ShopInv' /\ [ShopKept]_shopVars  BY ShopStays
<1>3. ShopKept => Step  BY DEF ShopKept, Sold
<1>4. ShopInv /\ [Next]_accountVars => ShopInv' /\ [Step]_shopVars  BY <1>2, <1>3
<1> QED  BY <1>1, <1>4, PTL DEF Spec, NeverOversold

(* The points balance is what a customer won less what his rows say, for   *)
(* any number of customers, rewards, redemptions and administrators; and a *)
(* redemption is paid once and refunded exactly when it is cancelled, at   *)
(* the price it was redeemed for, up to the answer of a request that       *)
(* another one has overtaken: cancel and fulfil look at the redemption     *)
(* without a lock and write it without another look (rewards.ts:158, 328,  *)
(* 341-363).                                                               *)
THEOREM RedemptionsArePaidOnce ==
  ASSUME IsFiniteSet(Redemptions)
  PROVE  Spec => RedemptionMoney
<1> DEFINE Step ==
      /\ PointsAddUp'
      /\ \A x \in Redemptions :
           PaidRight(x) => \/ PaidRight(x)'
                           \/ \E d \in Desks : Answered(d) /\ Overtaken(d) /\ desk[d].id = x
<1>1. Init => ShopInv  BY ShopBegins, RewardsAssumption DEF Init
<1>2. ShopInv /\ [Next]_accountVars => ShopInv' /\ [ShopKept]_shopVars  BY ShopStays
<1>3. ShopInv => PointsAddUp  BY DEF ShopInv, PointsAddUp, Spent, Net
<1>4. ShopInv' => PointsAddUp'  BY DEF ShopInv, PointsAddUp, Spent, Net
<1>5. ShopInv' /\ ShopKept => Step  BY <1>4 DEF ShopKept, StaysPaid, LatelyPaid
<1>6. ShopInv /\ [Next]_accountVars => ShopInv' /\ [Step]_shopVars  BY <1>2, <1>5
<1> QED  BY <1>1, <1>6, PTL DEF Spec, RedemptionMoney

-----------------------------------------------------------------------------
(* The allowance *)

(* There are finitely many days, so what a repair sums is a number.        *)
LEMMA SumsAreNumbers ==
  ASSUME AllowanceAssumption, AllowanceTypeOK
  PROVE  /\ IsFiniteSet(Days)
         /\ \A u \in Holders : RowSum(u) \in Int
<1>1. IsFiniteSet(Days)  BY FS_Interval DEF Days, AllowanceAssumption
<1>2. ASSUME NEW u \in Holders  PROVE RowSum(u) \in Int
  <2>1. \A c \in Days : accrued[u][c] \in Int  BY DEF AllowanceTypeOK
  <2> DEFINE f == accrued[u]
             D == Days
  <2>2. IsFiniteSet(D) /\ (\A c \in D : f[c] \in Int) /\ D \in SUBSET D  BY <1>1, <2>1
  <2> HIDE DEF f, D
  <2>3. SumFunctionOnSet(f, D) \in Int  BY <2>2, SumAdds
  <2>4. SumFunctionOnSet(accrued[u], Days) \in Int  BY <2>3 DEF f, D
  <2>5. others[u] \in Int  BY DEF AllowanceTypeOK
  <2> QED  BY <2>4, <2>5 DEF RowSum
<1> QED  BY <1>1, <1>2

(* No day's entitlement is above the maximum.                              *)
LEMMA EntitlementBound ==
  ASSUME AllowanceAssumption, NEW d \in Days
  PROVE  Entitlement(d) \in Int /\ Entitlement(d) <= MaxAllowance
<1>1. d \in Nat /\ WeekDays \in Nat \ {0}  BY DEF Days, AllowanceAssumption
<1>2. d % WeekDays \in Nat  BY <1>1
<1>3. DayInWeek(d) * Daily \in Nat  BY <1>2 DEF DayInWeek, AllowanceAssumption
<1> QED  BY <1>3 DEF Entitlement, Smaller, AllowanceAssumption

(* What is credited is not negative, and what is credited at all leaves    *)
(* the balance at the maximum or below.                                    *)
LEMMA CreditBound ==
  ASSUME AllowanceAssumption, AllowanceTypeOK, NEW u \in Holders, NEW d \in Days
  PROVE  /\ CreditDue(u, d) \in Nat
         /\ CreditDue(u, d) > 0 => balance[u] + CreditDue(u, d) <= MaxAllowance
<1>1. balance[u] \in Int /\ MaxAllowance \in Nat /\ Daily \in Nat
  BY DEF AllowanceTypeOK, AllowanceAssumption
<1>2. CASE NewWeek(u, d)
  <2>1. CreditDue(u, d) = Positive(Entitlement(d) - balance[u])  BY <1>2 DEF CreditDue
  <2> QED  BY <2>1, <1>1, EntitlementBound DEF Positive
<1>3. CASE ~NewWeek(u, d) /\ NewDay(u, d)
  <2>1. allowance[u].reset \in Days /\ allowance[u].reset < d
    BY <1>3 DEF NewWeek, NewDay, HasRow, AllowanceTypeOK
  <2>2. d - allowance[u].reset \in Nat  BY <2>1 DEF Days
  <2>3. (d - allowance[u].reset) * Daily \in Nat  BY <2>2, <1>1
  <2>4. CreditDue(u, d) = Smaller(Positive(MaxAllowance - balance[u]),
                                  (d - allowance[u].reset) * Daily)
    BY <1>3 DEF CreditDue, DailyAccrual
  <2> QED  BY <2>3, <2>4, <1>1 DEF Smaller, Positive
<1>4. CASE ~NewWeek(u, d) /\ ~NewDay(u, d)
  BY <1>4, <1>1 DEF CreditDue
<1> QED  BY <1>2, <1>3, <1>4

(* A posting changes one balance and the sum of its rows.                  *)
LEMMA PostTypes ==
  ASSUME AllowanceAssumption, AllowanceTypeOK, NEW u \in Holders, NEW amount \in Adjustments,
         Post(u, amount)
  PROVE  balance' \in [Holders -> Int] /\ others' \in [Holders -> Int]
<1>1. amount \in Int  BY DEF AllowanceAssumption
<1>2. balance[u] + amount \in Int /\ others[u] + amount \in Int
  BY <1>1 DEF AllowanceTypeOK
<1> QED  BY <1>2 DEF Post, AllowanceTypeOK

(* What a credit does: the row of one day grows by what is due.            *)
LEMMA CreditTypes ==
  ASSUME AllowanceAssumption, AllowanceTypeOK, NEW u \in Holders, NEW d \in DaysRead,
         NEW spent \in Nat,
         balance' = [balance EXCEPT ![u] = (balance[u] + CreditDue(u, d)) - spent],
         accrued' = [accrued EXCEPT ![u][d] = @ + CreditDue(u, d)],
         allowance' = [allowance EXCEPT ![u] =
                         [remaining |-> (balance[u] + CreditDue(u, d)) - spent,
                          reset |-> ResetAfter(u, d)]]
  PROVE  /\ balance' \in [Holders -> Int]
         /\ accrued' \in [Holders -> [Days -> Nat]]
         /\ allowance' \in [Holders -> {NoRow} \cup [remaining : Int, reset : Days]]
         /\ \A v \in Holders, c \in Days :
              accrued'[v][c] > accrued[v][c] => balance'[v] <= MaxAllowance
<1>1. d \in Days  BY DEF DaysRead
<1>2. /\ CreditDue(u, d) \in Nat /\ balance[u] \in Int /\ MaxAllowance \in Nat
      /\ CreditDue(u, d) > 0 => balance[u] + CreditDue(u, d) <= MaxAllowance
  BY <1>1, CreditBound DEF AllowanceTypeOK, AllowanceAssumption
<1> DEFINE due == CreditDue(u, d)
           total == (balance[u] + due) - spent
<1>3. total \in Int /\ due \in Nat  BY <1>2
<1>4. ResetAfter(u, d) \in Days
  BY <1>1 DEF ResetAfter, NewDay, HasRow, AllowanceTypeOK
<1>5. balance' = [balance EXCEPT ![u] = total] /\ accrued' = [accrued EXCEPT ![u][d] = @ + due]
  OBVIOUS
<1>6. due > 0 => total <= MaxAllowance  BY <1>2
<1>7. allowance' \in [Holders -> {NoRow} \cup [remaining : Int, reset : Days]]
  BY <1>3, <1>4 DEF AllowanceTypeOK
<1> HIDE DEF due, total
<1>8. balance' \in [Holders -> Int]  BY <1>3, <1>5 DEF AllowanceTypeOK
<1>9. accrued[u] \in [Days -> Nat] /\ accrued[u][d] \in Nat  BY <1>1 DEF AllowanceTypeOK
<1>10. /\ accrued' = [accrued EXCEPT ![u] = [accrued[u] EXCEPT ![d] = accrued[u][d] + due]]
  BY <1>5
<1>11. [accrued[u] EXCEPT ![d] = accrued[u][d] + due] \in [Days -> Nat]
  <2>1. PICK w \in Nat : w = accrued[u][d] + due  BY <1>3, <1>9
  <2>2. [accrued[u] EXCEPT ![d] = w] \in [Days -> Nat]  BY <1>9
  <2> QED  BY <2>1, <2>2
<1>12. accrued' \in [Holders -> [Days -> Nat]]  BY <1>10, <1>11 DEF AllowanceTypeOK
<1>13. ASSUME NEW v \in Holders, NEW c \in Days, accrued'[v][c] > accrued[v][c]
       PROVE  balance'[v] <= MaxAllowance
  <2>1. accrued[v][c] \in Nat  BY DEF AllowanceTypeOK
  <2>2. CASE v = u
    <3>1. due > 0
      <4>1. CASE c = d  BY <1>3, <1>9, <1>10, <1>13, <2>1, <2>2, <4>1 DEF AllowanceTypeOK
      <4>2. CASE c # d  BY <1>9, <1>10, <1>13, <2>1, <2>2, <4>2 DEF AllowanceTypeOK
      <4> QED  BY <4>1, <4>2
    <3> QED  BY <1>5, <1>6, <2>2, <3>1 DEF AllowanceTypeOK
  <2>3. CASE v # u
    <3>1. accrued'[v] = accrued[v]  BY <1>10, <2>3 DEF AllowanceTypeOK
    <3> QED  BY <1>13, <2>1, <3>1
  <2> QED  BY <2>2, <2>3
<1> QED  BY <1>7, <1>8, <1>12, <1>13

(* Every step of the allowance keeps the types, and credits no balance     *)
(* above the maximum.                                                      *)
LEMMA AllowanceStep ==
  ASSUME AllowanceAssumption, AllowanceTypeOK, TokensNext
  PROVE  /\ AllowanceTypeOK'
         /\ \A u \in Holders, d \in Days :
              accrued'[u][d] > accrued[u][d] => balance'[u] <= MaxAllowance
<1> DEFINE Kept == \A u \in Holders, d \in Days :
              accrued'[u][d] > accrued[u][d] => balance'[u] <= MaxAllowance
<1>1. \A u \in Holders, d \in Days : accrued[u][d] \in Nat  BY DEF AllowanceTypeOK
<1>2. ASSUME accrued' = accrued  PROVE Kept  BY <1>1, <1>2
<1>3. CASE NextDay
  <2>1. today' \in Days /\ UNCHANGED <<balance, allowance, accrued, others, repair>>
    BY <1>3 DEF NextDay, AllowanceTypeOK, Days, AllowanceAssumption
  <2>2. AllowanceTypeOK'  BY <2>1 DEF AllowanceTypeOK
  <2>3. Kept  BY <1>2, <2>1
  <2> QED  BY <2>2, <2>3
<1>4. ASSUME NEW u \in Holders, NEW d \in DaysRead, EnsureAllowance(u, d)
      PROVE  AllowanceTypeOK' /\ Kept
  <2>1. balance[u] \in Int /\ CreditDue(u, d) \in Nat
    BY CreditBound DEF AllowanceTypeOK, DaysRead
  <2>2. (balance[u] + CreditDue(u, d)) - 0 = balance[u] + CreditDue(u, d)  BY <2>1
  <2>3. /\ balance' = [balance EXCEPT ![u] = (balance[u] + CreditDue(u, d)) - 0]
        /\ accrued' = [accrued EXCEPT ![u][d] = @ + CreditDue(u, d)]
        /\ allowance' = [allowance EXCEPT ![u] = [remaining |-> (balance[u] + CreditDue(u, d)) - 0,
                                                  reset |-> ResetAfter(u, d)]]
        /\ UNCHANGED <<today, others, repair>>
    BY <1>4, <2>2 DEF EnsureAllowance
  <2> QED  BY <2>3, CreditTypes DEF AllowanceTypeOK
<1>5. ASSUME NEW u \in Holders, NEW d \in DaysRead, NEW amount \in Spends,
             ConsumeTokens(u, d, amount)
      PROVE  AllowanceTypeOK' /\ Kept
  <2>1. amount \in Nat  BY DEF AllowanceAssumption
  <2>2. balance' = [balance EXCEPT ![u] = (balance[u] + CreditDue(u, d)) - amount]
    BY <1>5 DEF ConsumeTokens
  <2>3. accrued' = [accrued EXCEPT ![u][d] = @ + CreditDue(u, d)]
    BY <1>5 DEF ConsumeTokens
  <2>4. allowance' = [allowance EXCEPT ![u] =
                        [remaining |-> (balance[u] + CreditDue(u, d)) - amount,
                         reset |-> ResetAfter(u, d)]]
    BY <1>5 DEF ConsumeTokens
  <2>5. others' = [others EXCEPT ![u] = others[u] - amount] /\ UNCHANGED <<today, repair>>
    BY <1>5 DEF ConsumeTokens
  <2>6. others' \in [Holders -> Int]  BY <2>1, <2>5 DEF AllowanceTypeOK
  <2> QED  BY <2>1, <2>2, <2>3, <2>4, <2>5, <2>6, CreditTypes DEF AllowanceTypeOK
<1>6. ASSUME NEW u \in Holders, NEW amount \in Adjustments, AdminCredit(u, amount)
      PROVE  AllowanceTypeOK' /\ Kept
  <2>1. Post(u, amount) /\ UNCHANGED <<today, allowance, accrued, repair>>
    BY <1>6 DEF AdminCredit
  <2> QED  BY <1>2, <2>1, PostTypes DEF AllowanceTypeOK
<1>7. ASSUME NEW u \in Holders, NEW amount \in Adjustments, PostAndSync(u, amount)
      PROVE  AllowanceTypeOK' /\ Kept
  <2> DEFINE row == [remaining |-> balance'[u],
                     reset |-> IF HasRow(u) THEN allowance[u].reset ELSE today]
  <2>1. /\ Post(u, amount) /\ UNCHANGED <<today, accrued, repair>>
        /\ allowance' = [allowance EXCEPT ![u] = row]
    BY <1>7 DEF PostAndSync
  <2>2. balance' \in [Holders -> Int] /\ others' \in [Holders -> Int]  BY <2>1, PostTypes
  <2>3. row \in [remaining : Int, reset : Days]
    BY <2>2 DEF HasRow, AllowanceTypeOK
  <2> HIDE DEF row
  <2> QED  BY <1>2, <2>1, <2>2, <2>3 DEF AllowanceTypeOK
<1>8. ASSUME NEW h \in Repairs, NEW u \in Repairable, ReadForRepair(h, u)
      PROVE  AllowanceTypeOK' /\ Kept
  <2> DEFINE q == [op |-> "repair", user |-> u, sum |-> RowSum(u)]
  <2>1. u \in Holders  BY DEF AllowanceAssumption
  <2>2. q \in RepairRequests  BY <2>1, SumsAreNumbers DEF RepairRequests
  <2>3. /\ repair' = [repair EXCEPT ![h] = q]
        /\ UNCHANGED <<today, balance, allowance, accrued, others>>
    BY <1>8 DEF ReadForRepair
  <2> HIDE DEF q
  <2> QED  BY <1>2, <2>2, <2>3 DEF AllowanceTypeOK
<1>9. ASSUME NEW h \in Repairs, WriteRepair(h)
      PROVE  AllowanceTypeOK' /\ Kept
  <2>1. repair[h] \in RepairRequests /\ repair[h].op = "repair"
    BY <1>9 DEF WriteRepair, AllowanceTypeOK
  <2>2. repair[h].sum \in Int  BY <2>1 DEF RepairRequests
  <2>3. [op |-> "idle"] \in RepairRequests  BY DEF RepairRequests
  <2>4. /\ balance' = [balance EXCEPT ![repair[h].user] = repair[h].sum]
        /\ repair' = [repair EXCEPT ![h] = [op |-> "idle"]]
        /\ UNCHANGED <<today, allowance, accrued, others>>
    BY <1>9 DEF WriteRepair
  <2>5. balance' \in [Holders -> Int]
    <3>1. \A n \in Int : \A v : [balance EXCEPT ![v] = n] \in [Holders -> Int]
      BY DEF AllowanceTypeOK
    <3> QED  BY <2>2, <2>4, <3>1
  <2>6. repair' \in [Repairs -> RepairRequests]  BY <2>3, <2>4 DEF AllowanceTypeOK
  <2>7. AllowanceTypeOK'  BY <2>4, <2>5, <2>6 DEF AllowanceTypeOK
  <2>8. Kept  BY <1>2, <2>4
  <2> QED  BY <2>7, <2>8
<1> QED  BY <1>3, <1>4, <1>5, <1>6, <1>7, <1>8, <1>9 DEF TokensNext

(* The types of the allowance hold at the start.                           *)
LEMMA AllowanceBegins ==
  ASSUME AllowanceAssumption, AllowanceInit
  PROVE  AllowanceTypeOK
BY DEF AllowanceInit, AllowanceTypeOK, AllowanceAssumption, Days, RepairRequests

(* The allowance never lifts a balance above the maximum, however the      *)
(* balance and the allowance row disagree (tokenAllowance.ts:260-276), for *)
(* any amounts and days.                                                   *)
THEOREM AllowanceStopsAtMaximum ==
  Spec => AllowanceKeepsMaximum
<1> DEFINE Kept == \A u \in Holders, d \in Days :
              accrued'[u][d] > accrued[u][d] => balance'[u] <= MaxAllowance
<1>1. Init => AllowanceTypeOK  BY AllowanceBegins, AllowanceAssumption DEF Init
<1>2. AllowanceTypeOK /\ [Next]_accountVars
        => AllowanceTypeOK' /\ [Kept]_tokenVars
  <2> SUFFICES ASSUME AllowanceTypeOK, [Next]_accountVars
               PROVE  AllowanceTypeOK' /\ [Kept]_tokenVars
    OBVIOUS
  <2>1. CASE TokensNext  BY <2>1, AllowanceStep, AllowanceAssumption
  <2>2. CASE UNCHANGED tokenVars  BY <2>2 DEF tokenVars, AllowanceTypeOK
  <2> QED  BY <2>1, <2>2, PartsMove
<1> QED  BY <1>1, <1>2, PTL DEF Spec, AllowanceKeepsMaximum

(* A sum of the library is an integer.                                     *)
LEMMA SumIsInt ==
  ASSUME NEW S, IsFiniteSet(S), NEW f, \A x \in S : f[x] \in Int
  PROVE  SumFunctionOnSet(f, S) \in Int
BY SumAdds

(* What is booked to a day of S makes the sum over S greater by it.        *)
LEMMA CreditedDays ==
  ASSUME AllowanceAssumption, AllowanceTypeOK, NEW u \in Holders, NEW d, d \in Days,
         NEW due, due \in Nat, accrued' = [accrued EXCEPT ![u][d] = @ + due]
  PROVE  \A S \in SUBSET Days :
           SumFunctionOnSet(accrued'[u], S)
             = IF d \in S THEN SumFunctionOnSet(accrued[u], S) + due
               ELSE SumFunctionOnSet(accrued[u], S)
<1> SUFFICES ASSUME NEW S, S \in SUBSET Days
             PROVE  SumFunctionOnSet(accrued'[u], S)
                      = IF d \in S THEN SumFunctionOnSet(accrued[u], S) + due
                        ELSE SumFunctionOnSet(accrued[u], S)
  OBVIOUS
<1>1. accrued[u] \in [Days -> Nat]  BY DEF AllowanceTypeOK
<1>2. accrued'[u] = [accrued[u] EXCEPT ![d] = @ + due]  BY DEF AllowanceTypeOK
<1>3. IsFiniteSet(S)  BY SumsAreNumbers, FS_Subset
<1> DEFINE f == accrued[u]
           g == accrued'[u]
<1>4. f[d] \in Int /\ g[d] = f[d] + due  BY <1>1, <1>2
<1>5. \A c \in S : c # d => g[c] = f[c]  BY <1>1, <1>2
<1>6. \A c \in S : f[c] \in Int  BY <1>1
<1>7. \A c \in S : f[c] \in Int /\ g[c] \in Int
  <2> SUFFICES ASSUME NEW c \in S  PROVE g[c] \in Int
    BY <1>6
  <2>1. CASE c = d  BY <2>1, <1>4
  <2>2. CASE c # d  BY <2>2, <1>5, <1>6
  <2> QED  BY <2>1, <2>2
<1> HIDE DEF f, g
<1>8. CASE d \in S
  <2>1. SumFunctionOnSet(g, S) = SumFunctionOnSet(f, S) + (g[d] - f[d])
    BY <1>3, <1>5, <1>7, <1>8, SumGrows
  <2>2. g[d] - f[d] = due  BY <1>4
  <2> QED  BY <1>8, <2>1, <2>2 DEF f, g
<1>9. CASE d \notin S
  <2>1. \A c \in S : f[c] \in Int /\ g[c] = f[c]  BY <1>5, <1>6, <1>9
  <2>2. SumFunctionOnSet(g, S) = SumFunctionOnSet(f, S)  BY <1>3, <2>1, SumSame
  <2> QED  BY <1>9, <2>2 DEF f, g
<1> QED  BY <1>8, <1>9

(* What the rows of a user add up to moves by a posting of n.              *)
LEMMA PostedMoves ==
  ASSUME AllowanceAssumption, AllowanceTypeOK, NEW u \in Holders, NEW n, n \in Int,
         balance' = [balance EXCEPT ![u] = @ + n], others' = [others EXCEPT ![u] = @ + n],
         accrued' = accrued
  PROVE  \A v \in Holders : Drift(v)' = Drift(v)
<1> SUFFICES ASSUME NEW v \in Holders  PROVE Drift(v)' = Drift(v)
  OBVIOUS
<1>1. /\ balance[v] \in Int /\ others[v] \in Int
      /\ balance'[v] = IF v = u THEN balance[v] + n ELSE balance[v]
      /\ others'[v] = IF v = u THEN others[v] + n ELSE others[v]
  BY DEF AllowanceTypeOK
<1> DEFINE days == SumFunctionOnSet(accrued[v], Days)
<1>2. RowSum(v) = others[v] + days /\ RowSum(v)' = others'[v] + days
  BY DEF RowSum
<1>3. RowSum(v) \in Int  BY SumsAreNumbers
<1>4. CASE v = u
  <2>1. RowSum(v)' = RowSum(v) + n
    <3>1. days \in Int
      <4>1. IsFiniteSet(Days) /\ \A c \in Days : accrued[v][c] \in Int
        BY SumsAreNumbers DEF AllowanceTypeOK
      <4> QED  BY <4>1, SumIsInt
    <3> HIDE DEF days
    <3> QED  BY <3>1, <1>1, <1>2, <1>4
  <2> QED  BY <2>1, <1>1, <1>3, <1>4 DEF Drift
<1>5. CASE v # u
  <2>1. RowSum(v)' = RowSum(v)  BY <1>1, <1>2, <1>5
  <2> QED  BY <2>1, <1>1, <1>5 DEF Drift
<1> QED  BY <1>4, <1>5

(* A credit is booked to one day; it moves balance and rows alike, and so  *)
(* does what is spent along with it.                                       *)
LEMMA CreditMoves ==
  ASSUME AllowanceAssumption, AllowanceTypeOK, NEW u \in Holders, NEW d, d \in Days,
         NEW due, due \in Nat, NEW spent, spent \in Nat,
         balance' = [balance EXCEPT ![u] = (@ + due) - spent],
         accrued' = [accrued EXCEPT ![u][d] = @ + due],
         others' = [others EXCEPT ![u] = @ - spent]
  PROVE  \A v \in Holders : Drift(v)' = Drift(v)
<1> SUFFICES ASSUME NEW v \in Holders  PROVE Drift(v)' = Drift(v)
  OBVIOUS
<1>1. /\ balance[v] \in Int /\ others[v] \in Int
      /\ balance'[v] = IF v = u THEN (balance[v] + due) - spent ELSE balance[v]
      /\ others'[v] = IF v = u THEN others[v] - spent ELSE others[v]
  BY DEF AllowanceTypeOK
<1>2. /\ RowSum(v) = others[v] + SumFunctionOnSet(accrued[v], Days)
      /\ RowSum(v)' = others'[v] + SumFunctionOnSet(accrued'[v], Days)
  BY DEF RowSum
<1>3. SumFunctionOnSet(accrued[v], Days) \in Int
  <2>1. IsFiniteSet(Days) /\ \A c \in Days : accrued[v][c] \in Int
    BY SumsAreNumbers DEF AllowanceTypeOK
  <2> QED  BY <2>1, SumIsInt
<1>4. CASE v = u
  <2>1. SumFunctionOnSet(accrued'[v], Days) = SumFunctionOnSet(accrued[v], Days) + due
    BY <1>4, CreditedDays DEF AllowanceTypeOK
  <2> HIDE DEF Days
  <2> QED  BY <2>1, <1>1, <1>2, <1>3, <1>4 DEF Drift
<1>5. CASE v # u
  <2>1. accrued'[v] = accrued[v]  BY <1>5 DEF AllowanceTypeOK
  <2>2. RowSum(v)' = RowSum(v)  BY <1>1, <1>2, <1>5, <2>1
  <2> QED  BY <2>2, <1>1, <1>5 DEF Drift
<1> QED  BY <1>4, <1>5

(* No step but the write of a repair moves balance and rows apart.         *)
LEMMA DriftStep ==
  ASSUME AllowanceAssumption, AllowanceTypeOK, TokensNext
  PROVE  \A u \in Holders : Drift(u)' # Drift(u) =>
           \E h \in Repairs : repair[h].op = "repair" /\ repair[h].user = u /\ repair'[h].op = "idle"
<1> DEFINE Same == \A u \in Holders : Drift(u)' = Drift(u)
           Kept == \A u \in Holders : Drift(u)' # Drift(u) =>
             \E h \in Repairs : repair[h].op = "repair" /\ repair[h].user = u /\ repair'[h].op = "idle"
<1>1. Same => Kept  OBVIOUS
<1>2. ASSUME UNCHANGED <<balance, accrued, others>>  PROVE Same
  BY <1>2 DEF Drift, RowSum
<1>3. ASSUME NEW u \in Holders, NEW d \in DaysRead, EnsureAllowance(u, d)  PROVE Same
  <2>1. d \in Days /\ CreditDue(u, d) \in Nat /\ balance[u] \in Int /\ others[u] \in Int
    BY CreditBound DEF AllowanceTypeOK, DaysRead
  <2>2. /\ balance' = [balance EXCEPT ![u] = balance[u] + CreditDue(u, d)]
        /\ accrued' = [accrued EXCEPT ![u][d] = @ + CreditDue(u, d)] /\ others' = others
    BY <1>3 DEF EnsureAllowance
  <2>3. ASSUME NEW spent, spent = 0  PROVE Same
    <3>1. spent \in Nat /\ balance[u] + CreditDue(u, d) = (balance[u] + CreditDue(u, d)) - spent
      BY <2>1, <2>3
    <3>2. others[u] = others[u] - spent  BY <2>1, <2>3
    <3>3. others' = [others EXCEPT ![u] = @ - spent]  BY <2>2, <3>2 DEF AllowanceTypeOK
    <3>4. balance' = [balance EXCEPT ![u] = (@ + CreditDue(u, d)) - spent]  BY <2>2, <3>1
    <3>5. accrued' = [accrued EXCEPT ![u][d] = @ + CreditDue(u, d)]  BY <2>2
    <3>6. d \in Days /\ CreditDue(u, d) \in Nat /\ spent \in Nat  BY <2>1, <3>1
    <3> QED  BY <3>3, <3>4, <3>5, <3>6, CreditMoves
  <2> QED  BY <2>3
<1>4. ASSUME NEW u \in Holders, NEW d \in DaysRead, NEW amount \in Spends,
             ConsumeTokens(u, d, amount)
      PROVE  Same
  <2>1. d \in Days /\ CreditDue(u, d) \in Nat /\ amount \in Nat
    BY CreditBound DEF AllowanceAssumption, DaysRead
  <2>2. /\ balance' = [balance EXCEPT ![u] = (@ + CreditDue(u, d)) - amount]
        /\ accrued' = [accrued EXCEPT ![u][d] = @ + CreditDue(u, d)]
        /\ others' = [others EXCEPT ![u] = @ - amount]
    BY <1>4 DEF ConsumeTokens
  <2> QED  BY <2>1, <2>2, CreditMoves
<1>5. ASSUME NEW u \in Holders, NEW amount \in Adjustments,
             AdminCredit(u, amount) \/ PostAndSync(u, amount)
      PROVE  Same
  <2>1. amount \in Int  BY DEF AllowanceAssumption
  <2>2. Post(u, amount) /\ accrued' = accrued  BY <1>5 DEF AdminCredit, PostAndSync
  <2> QED  BY <2>1, <2>2, PostedMoves DEF Post
<1>6. ASSUME NEW h \in Repairs, WriteRepair(h)  PROVE Kept
  <2> SUFFICES ASSUME NEW u \in Holders, Drift(u)' # Drift(u)
               PROVE  repair[h].op = "repair" /\ repair[h].user = u /\ repair'[h].op = "idle"
    OBVIOUS
  <2>1. repair[h].op = "repair" /\ repair'[h].op = "idle" /\ UNCHANGED <<accrued, others>>
    BY <1>6 DEF WriteRepair, AllowanceTypeOK
  <2>2. repair[h].user = u
    <3> SUFFICES ASSUME repair[h].user # u  PROVE FALSE
      OBVIOUS
    <3>1. balance'[u] = balance[u]  BY <1>6 DEF WriteRepair, AllowanceTypeOK
    <3>2. RowSum(u)' = RowSum(u)  BY <2>1 DEF RowSum
    <3> QED  BY <3>1, <3>2 DEF Drift
  <2> QED  BY <2>1, <2>2
<1>7. CASE NextDay  BY <1>1, <1>2, <1>7 DEF NextDay
<1>8. ASSUME NEW h \in Repairs, NEW u \in Repairable, ReadForRepair(h, u)  PROVE Same
  BY <1>2, <1>8 DEF ReadForRepair
<1> QED  BY <1>1, <1>3, <1>4, <1>5, <1>6, <1>7, <1>8 DEF TokensNext

(* The difference of balance and rows is moved by the write of a repair,   *)
(* and by nothing else (ledger.ts:88): no posting, allowance, spending or  *)
(* synchronisation moves it, for any number of users, days and repairs     *)
(* in flight.                                                              *)
THEOREM OnlyRepairsDrift ==
  Spec => DriftOnlyByRepair
<1> DEFINE Kept == \A u \in Holders : Drift(u)' # Drift(u) =>
             \E h \in Repairs : repair[h].op = "repair" /\ repair[h].user = u /\ repair'[h].op = "idle"
<1>1. Init => AllowanceTypeOK  BY AllowanceBegins, AllowanceAssumption DEF Init
<1>2. AllowanceTypeOK /\ [Next]_accountVars => AllowanceTypeOK' /\ [Kept]_tokenVars
  <2> SUFFICES ASSUME AllowanceTypeOK, [Next]_accountVars
               PROVE  AllowanceTypeOK' /\ [Kept]_tokenVars
    OBVIOUS
  <2>1. CASE TokensNext
    <3>1. AllowanceTypeOK'  BY <2>1, AllowanceStep, AllowanceAssumption
    <3>2. Kept  BY <2>1, DriftStep, AllowanceAssumption
    <3> QED  BY <3>1, <3>2
  <2>2. CASE UNCHANGED tokenVars  BY <2>2 DEF tokenVars, AllowanceTypeOK
  <2> QED  BY <2>1, <2>2, PartsMove
<1> QED  BY <1>1, <1>2, PTL DEF Spec, DriftOnlyByRepair

\* The days of the week of d up to d, what was credited on them, and what may have been.
DayRun(d) == {c \in Days : WeekOf(c) = WeekOf(d) /\ c <= d}
Earned(u, d) == SumFunctionOnSet(accrued[u], DayRun(d))
Cap(d) == WeeklyStart + DayInWeek(d) * Daily

\* Nothing is credited to a day after the one that the allowance row names.
CreditedUpTo(u) ==
  \A c \in Days : ~HasRow(u) \/ c > allowance[u].reset => accrued[u][c] = 0

\* What holds of a user whose balance is not repaired.
AccrualInv ==
  /\ AllowanceTypeOK
  /\ \A h \in Repairs : repair[h].op = "repair" => repair[h].user \in Repairable
  /\ \A u \in Holders \ Repairable :
       /\ balance[u] >= 0 /\ CreditedUpTo(u)
       /\ \A d \in Days : Earned(u, d) <= Cap(d)

(* Days and weeks: a later day is in no earlier week, and within a week    *)
(* days are as far apart as in the calendar.                               *)
LEMMA Calendar ==
  ASSUME AllowanceAssumption, NEW a \in Days, NEW b \in Days, a <= b
  PROVE  /\ a \in Nat /\ b \in Nat /\ b - a \in Nat
         /\ WeekOf(a) \in Nat /\ WeekOf(b) \in Nat /\ WeekOf(a) <= WeekOf(b)
         /\ DayInWeek(a) \in Nat /\ DayInWeek(b) \in Nat
         /\ WeekOf(a) = WeekOf(b) => DayInWeek(b) - DayInWeek(a) = b - a
<1>1. a \in Nat /\ b \in Nat /\ WeekDays \in Nat \ {0}  BY DEF Days, AllowanceAssumption
<1>2. \A x, y \in Nat, w \in Nat \ {0} : x <= y =>
        /\ y - x \in Nat /\ x \div w \in Nat /\ y \div w \in Nat /\ x \div w <= y \div w
        /\ x % w \in Nat /\ y % w \in Nat
        /\ x \div w = y \div w => (y % w) - (x % w) = y - x
  OBVIOUS
<1> QED  BY <1>1, <1>2 DEF WeekOf, DayInWeek

(* What may be credited grows by a daily allowance with each day.          *)
LEMMA CapGrows ==
  ASSUME AllowanceAssumption, NEW a \in Days, NEW b \in Days, a <= b, WeekOf(a) = WeekOf(b)
  PROVE  /\ Cap(a) \in Nat /\ Cap(b) \in Nat /\ (b - a) * Daily \in Nat
         /\ Cap(b) = Cap(a) + (b - a) * Daily
<1>1. /\ DayInWeek(a) \in Nat /\ DayInWeek(b) \in Nat /\ b - a \in Nat
      /\ DayInWeek(b) - DayInWeek(a) = b - a
      /\ Daily \in Nat /\ WeeklyStart \in Nat
  BY Calendar DEF AllowanceAssumption
<1>2. \A x, y, n, m \in Nat : y - x = m =>
        /\ x * n \in Nat /\ y * n \in Nat /\ m * n \in Nat
        /\ y * n = x * n + m * n
  <2> SUFFICES ASSUME NEW x \in Nat, NEW y \in Nat, NEW n \in Nat, NEW m \in Nat, y - x = m
               PROVE  /\ x * n \in Nat /\ y * n \in Nat /\ m * n \in Nat
                      /\ y * n = x * n + m * n
    OBVIOUS
  <2>1. x * n \in Nat /\ m * n \in Nat  OBVIOUS
  <2>2. y = x + m  OBVIOUS
  <2>3. (x + m) * n = x * n + m * n  OBVIOUS
  <2> QED  BY <2>1, <2>2, <2>3
<1>3. /\ DayInWeek(a) * Daily \in Nat /\ DayInWeek(b) * Daily \in Nat /\ (b - a) * Daily \in Nat
      /\ DayInWeek(b) * Daily = DayInWeek(a) * Daily + (b - a) * Daily
  BY <1>1, <1>2
<1>4. \A s, x, y, m \in Nat : y = x + m => s + x \in Nat /\ s + y \in Nat /\ s + y = (s + x) + m
  OBVIOUS
<1> QED  BY <1>1, <1>3, <1>4 DEF Cap

(* What was credited in a week up to b was credited up to a, when nothing  *)
(* was credited after a.                                                   *)
LEMMA EarnedUpTo ==
  ASSUME AllowanceAssumption, AllowanceTypeOK, NEW u \in Holders,
         NEW a \in Days, NEW b \in Days, a <= b, WeekOf(a) = WeekOf(b),
         \A c \in Days : c > a => accrued[u][c] = 0
  PROVE  Earned(u, b) = Earned(u, a)
<1> DEFINE f == accrued[u]
           S == DayRun(b)
           T == DayRun(a)
<1>1. \A c \in Days : c \in Nat  BY DEF Days
<1>2. S \in SUBSET Days /\ T \in SUBSET S
  BY <1>1 DEF DayRun
<1>3. \A c \in S : f[c] \in Int  BY DEF AllowanceTypeOK, DayRun
<1>4. \A c \in S \ T : f[c] = 0  BY <1>1 DEF DayRun
<1>5. IsFiniteSet(S)  BY <1>2, SumsAreNumbers, FS_Subset
<1> HIDE DEF f, S, T
<1>6. SumFunctionOnSet(f, S) = SumFunctionOnSet(f, T)
  BY <1>2, <1>3, <1>4, <1>5, SumSupport
<1> QED  BY <1>6 DEF f, S, T, Earned

(* Nothing was credited in a week with nothing on its days.                *)
LEMMA EarnedNothing ==
  ASSUME AllowanceAssumption, AllowanceTypeOK, NEW u \in Holders, NEW d \in Days,
         \A c \in DayRun(d) : accrued[u][c] = 0
  PROVE  Earned(u, d) = 0
<1> DEFINE f == accrued[u]
           S == DayRun(d)
           none == {}
<1>1. S \in SUBSET Days /\ none \in SUBSET S  BY DEF DayRun
<1>2. \A c \in S : f[c] \in Int  BY DEF AllowanceTypeOK, DayRun
<1>3. \A c \in S \ none : f[c] = 0  OBVIOUS
<1>4. IsFiniteSet(S)  BY <1>1, SumsAreNumbers, FS_Subset
<1> HIDE DEF f, S
<1>5. SumFunctionOnSet(f, S) = SumFunctionOnSet(f, none)
  <2> HIDE DEF none
  <2> QED  BY <1>1, <1>2, <1>3, <1>4, SumSupport
<1>6. SumFunctionOnSet(f, none) = 0
  BY <1>2, <1>4, SumAdds
<1> QED  BY <1>5, <1>6 DEF f, S, Earned

(* What is due on a day, on top of what the week has brought, is within    *)
(* the week's allowance up to that day; on a day already paid it is none.  *)
LEMMA DueWithinCap ==
  ASSUME AllowanceAssumption, AccrualInv, NEW u \in Holders \ Repairable, NEW d \in Days
  PROVE  /\ CreditDue(u, d) \in Nat /\ Earned(u, d) \in Int /\ Cap(d) \in Nat
         /\ NewDay(u, d) => Earned(u, d) + CreditDue(u, d) <= Cap(d)
         /\ ~NewDay(u, d) => CreditDue(u, d) = 0
<1>1. /\ AllowanceTypeOK /\ u \in Holders /\ balance[u] \in Int /\ balance[u] >= 0
      /\ CreditDue(u, d) \in Nat /\ Daily \in Nat /\ MaxAllowance \in Nat
      /\ \A c \in Days : c \in Nat
  <2>1. AllowanceTypeOK /\ u \in Holders /\ balance[u] \in Int /\ balance[u] >= 0
    BY DEF AccrualInv, AllowanceTypeOK
  <2>2. CreditDue(u, d) \in Nat  BY <2>1, CreditBound
  <2>3. Daily \in Nat /\ MaxAllowance \in Nat /\ \A c \in Days : c \in Nat
    BY DEF AllowanceAssumption, Days
  <2> QED  BY <2>1, <2>2, <2>3
<1>2. Earned(u, d) \in Int
  <2>1. IsFiniteSet(DayRun(d)) /\ \A c \in DayRun(d) : accrued[u][c] \in Int
    <3>1. DayRun(d) \in SUBSET Days  BY DEF DayRun
    <3>2. IsFiniteSet(DayRun(d))  BY <1>1, <3>1, SumsAreNumbers, FS_Subset
    <3> QED  BY <1>1, <3>1, <3>2 DEF AllowanceTypeOK
  <2> QED  BY <2>1, SumIsInt DEF Earned
<1>3. Cap(d) \in Nat  BY CapGrows, <1>1
<1>4. HasRow(u) => allowance[u].reset \in Days
  BY <1>1 DEF HasRow, AllowanceTypeOK
<1>5. CASE NewWeek(u, d)
  <2>1. CreditDue(u, d) = Positive(Entitlement(d) - balance[u])  BY <1>5 DEF CreditDue
  <2>2. Entitlement(d) \in Int /\ Entitlement(d) <= Cap(d)
    <3>1. WeeklyStart + DayInWeek(d) * Daily \in Nat  BY <1>3 DEF Cap
    <3> QED  BY <1>1, <3>1 DEF Entitlement, Smaller, Cap
  <2>3. CreditDue(u, d) <= Cap(d)  BY <2>1, <2>2, <1>1, <1>3 DEF Positive
  <2>4. \A c \in DayRun(d) : accrued[u][c] = 0
    <3> SUFFICES ASSUME NEW c \in DayRun(d)  PROVE accrued[u][c] = 0
      OBVIOUS
    <3>1. c \in Days /\ WeekOf(c) = WeekOf(d)  BY DEF DayRun
    <3>2. CASE ~HasRow(u)  BY <3>1, <3>2 DEF AccrualInv, CreditedUpTo
    <3>3. CASE HasRow(u)
      <4>1. WeekOf(allowance[u].reset) < WeekOf(c)  BY <1>5, <3>1, <3>3 DEF NewWeek
      <4>2. c > allowance[u].reset
        <5>1. c <= allowance[u].reset => WeekOf(c) <= WeekOf(allowance[u].reset)
                /\ WeekOf(c) \in Nat /\ WeekOf(allowance[u].reset) \in Nat
          BY <1>4, <3>1, <3>3, Calendar
        <5>2. c \in Nat /\ allowance[u].reset \in Nat  BY <1>1, <1>4, <3>1, <3>3
        <5> QED  BY <4>1, <5>1, <5>2
      <4> QED  BY <3>1, <3>3, <4>2 DEF AccrualInv, CreditedUpTo
    <3> QED  BY <3>2, <3>3
  <2>5. Earned(u, d) = 0  BY <1>1, <2>4, EarnedNothing
  <2>6. NewDay(u, d)
    <3>1. CASE ~HasRow(u)  BY <3>1 DEF NewDay
    <3>2. CASE HasRow(u)
      <4>1. WeekOf(allowance[u].reset) < WeekOf(d)  BY <1>5, <3>2 DEF NewWeek
      <4>2. d <= allowance[u].reset => WeekOf(d) <= WeekOf(allowance[u].reset)
              /\ WeekOf(d) \in Nat /\ WeekOf(allowance[u].reset) \in Nat
        BY <1>4, <3>2, Calendar
      <4>3. d \in Nat /\ allowance[u].reset \in Nat  BY <1>1, <1>4, <3>2
      <4> QED  BY <3>2, <4>1, <4>2, <4>3 DEF NewDay
    <3> QED  BY <3>1, <3>2
  <2> QED  BY <1>1, <1>3, <2>3, <2>5, <2>6
<1>6. CASE ~NewWeek(u, d) /\ NewDay(u, d)
  <2>1. /\ HasRow(u) /\ allowance[u].reset \in Days /\ allowance[u].reset < d
        /\ ~(WeekOf(allowance[u].reset) < WeekOf(d))
    BY <1>4, <1>6 DEF NewWeek, NewDay
  <2>2. PICK a \in Days : a = allowance[u].reset  BY <2>1
  <2>3. a < d /\ a <= d /\ a \in Nat /\ d \in Nat  BY <1>1, <2>1, <2>2
  <2>4. WeekOf(a) = WeekOf(d)
    <3>1. WeekOf(a) <= WeekOf(d) /\ WeekOf(a) \in Nat /\ WeekOf(d) \in Nat
      BY <2>3, Calendar
    <3> QED  BY <2>1, <2>2, <3>1
  <2>5. \A c \in Days : c > a => accrued[u][c] = 0
    BY <2>2 DEF AccrualInv, CreditedUpTo
  <2>6. Earned(u, d) = Earned(u, a)  BY <1>1, <2>3, <2>4, <2>5, EarnedUpTo
  <2>7. Earned(u, a) <= Cap(a)  BY DEF AccrualInv
  <2>8. Cap(d) = Cap(a) + (d - a) * Daily /\ Cap(a) \in Nat /\ (d - a) * Daily \in Nat
    BY <2>3, <2>4, CapGrows
  <2>9. CreditDue(u, d) = Smaller(Positive(MaxAllowance - balance[u]), (d - a) * Daily)
    BY <1>6, <2>2 DEF CreditDue, DailyAccrual
  <2>10. CreditDue(u, d) <= (d - a) * Daily
    BY <2>8, <2>9, <1>1 DEF Smaller, Positive
  <2> QED  BY <1>1, <1>2, <1>3, <1>6, <2>6, <2>7, <2>8, <2>10
<1>7. CASE ~NewWeek(u, d) /\ ~NewDay(u, d)
  BY <1>1, <1>2, <1>3, <1>7 DEF CreditDue
<1> QED  BY <1>5, <1>6, <1>7

\* What AccrualInv says of one user.
Entitled(u) == balance[u] >= 0 /\ CreditedUpTo(u) /\ \A d \in Days : Earned(u, d) <= Cap(d)

(* A credit on a day that was not paid leaves the user within what the     *)
(* week allows, on that day and on every other.                            *)
LEMMA CreditEntitled ==
  ASSUME AllowanceAssumption, AccrualInv, NEW u \in Holders \ Repairable, NEW d, d \in Days,
         NEW spent, spent \in Nat, spent <= balance[u] + CreditDue(u, d),
         balance' = [balance EXCEPT ![u] = (balance[u] + CreditDue(u, d)) - spent],
         accrued' = [accrued EXCEPT ![u][d] = @ + CreditDue(u, d)],
         allowance' = [allowance EXCEPT ![u] =
                         [remaining |-> (balance[u] + CreditDue(u, d)) - spent,
                          reset |-> ResetAfter(u, d)]]
  PROVE  Entitled(u)'
<1> DEFINE due == CreditDue(u, d)
           total == (balance[u] + due) - spent
<1>1. /\ AllowanceTypeOK /\ u \in Holders
      /\ balance[u] \in Int /\ CreditedUpTo(u)
      /\ \A e \in Days : Earned(u, e) <= Cap(e) /\ e \in Nat
      /\ accrued[u] \in [Days -> Nat]
  BY DEF AccrualInv, AllowanceTypeOK, Days
<1>2. /\ due \in Nat /\ Cap(d) \in Nat /\ Earned(u, d) \in Int
      /\ NewDay(u, d) => Earned(u, d) + due <= Cap(d)
      /\ ~NewDay(u, d) => due = 0
  BY DueWithinCap
<1>3. total \in Int /\ total >= 0  BY <1>1, <1>2
<1>4. balance'[u] = total  BY <1>1 DEF AllowanceTypeOK
<1>5. HasRow(u) => allowance[u].reset \in Days  BY <1>1 DEF AllowanceTypeOK, HasRow
<1>6. ResetAfter(u, d) \in Days  BY <1>5 DEF ResetAfter, NewDay
<1>7. allowance'[u] = [remaining |-> total, reset |-> ResetAfter(u, d)]
  BY <1>1 DEF AllowanceTypeOK
<1>8. HasRow(u)' /\ allowance'[u].reset = ResetAfter(u, d)
  <2>1. ResetAfter(u, d) \in Nat  BY <1>1, <1>6
  <2>2. allowance'[u] \in [remaining : Int, reset : Nat]  BY <1>3, <1>7, <2>1
  <2> QED  BY <1>7, <2>2 DEF HasRow, AllowanceAssumption
<1>9. /\ accrued'[u][d] = accrued[u][d] + due
      /\ \A c \in Days : c # d => accrued'[u][c] = accrued[u][c]
  BY <1>1 DEF AllowanceTypeOK
<1>10. accrued' = [accrued EXCEPT ![u][d] = @ + due]  OBVIOUS
<1> HIDE DEF due, total
<1>11. CreditedUpTo(u)'
  <2> SUFFICES ASSUME NEW c \in Days, c > ResetAfter(u, d)  PROVE accrued'[u][c] = 0
    BY <1>8 DEF CreditedUpTo
  <2>1. c \in Nat /\ d \in Nat /\ ResetAfter(u, d) \in Nat  BY <1>1, <1>6
  <2>2. CASE NewDay(u, d)
    <3>1. c > d  BY <2>2 DEF ResetAfter
    <3>2. ~HasRow(u) \/ c > allowance[u].reset
      <4>1. CASE HasRow(u)
        <5>1. allowance[u].reset \in Nat /\ allowance[u].reset < d
          BY <1>1, <1>5, <2>2, <4>1 DEF NewDay
        <5> QED  BY <2>1, <3>1, <5>1
      <4> QED  BY <4>1
    <3>3. accrued[u][c] = 0  BY <1>1, <3>2 DEF CreditedUpTo
    <3> QED  BY <1>9, <2>1, <3>1, <3>3
  <2>3. CASE ~NewDay(u, d)
    <3>1. HasRow(u) /\ c > allowance[u].reset  BY <2>3 DEF ResetAfter, NewDay
    <3>2. accrued[u][c] = 0  BY <1>1, <3>1 DEF CreditedUpTo
    <3> QED  BY <1>2, <1>9, <2>3, <3>2
  <2> QED  BY <2>2, <2>3
<1>12. ASSUME NEW e \in Days  PROVE Earned(u, e)' <= Cap(e)
  <2>1. DayRun(e) \in SUBSET Days  BY DEF DayRun
  <2>2. Earned(u, e)' = IF d \in DayRun(e) THEN Earned(u, e) + due ELSE Earned(u, e)
    <3>1. \A S \in SUBSET Days :
            SumFunctionOnSet(accrued'[u], S)
              = IF d \in S THEN SumFunctionOnSet(accrued[u], S) + due
                ELSE SumFunctionOnSet(accrued[u], S)
      BY <1>1, <1>2, <1>10, CreditedDays
    <3>2. Earned(u, e)' = SumFunctionOnSet(accrued'[u], DayRun(e))
      BY DEF Earned, DayRun, Days, WeekOf
    <3> QED  BY <2>1, <3>1, <3>2 DEF Earned
  <2>3. Earned(u, e) <= Cap(e) /\ Earned(u, e) \in Int /\ Cap(e) \in Nat
    BY <1>1, DueWithinCap
  <2>4. CASE d \notin DayRun(e)  BY <2>2, <2>3, <2>4
  <2>5. CASE d \in DayRun(e) /\ ~NewDay(u, d)  BY <1>2, <2>2, <2>3, <2>5
  <2>6. CASE d \in DayRun(e) /\ NewDay(u, d)
    <3>1. d <= e /\ WeekOf(d) = WeekOf(e)  BY <2>6 DEF DayRun
    <3>2. \A c \in Days : c > d => accrued[u][c] = 0
      <4> SUFFICES ASSUME NEW c \in Days, c > d  PROVE accrued[u][c] = 0
        OBVIOUS
      <4>1. CASE ~HasRow(u)  BY <1>1, <4>1 DEF CreditedUpTo
      <4>2. CASE HasRow(u)
        <5>1. allowance[u].reset \in Nat /\ allowance[u].reset < d /\ c \in Nat /\ d \in Nat
          BY <1>1, <1>5, <2>6, <4>2 DEF NewDay
        <5>2. c > allowance[u].reset  BY <5>1
        <5> QED  BY <1>1, <5>2 DEF CreditedUpTo
      <4> QED  BY <4>1, <4>2
    <3>3. Earned(u, e) = Earned(u, d)  BY <1>1, <3>1, <3>2, EarnedUpTo
    <3>4. Cap(d) <= Cap(e)
      <4>1. Cap(e) = Cap(d) + (e - d) * Daily /\ (e - d) * Daily \in Nat
        BY <3>1, CapGrows
      <4> QED  BY <1>2, <4>1
    <3> QED  BY <1>2, <2>2, <2>3, <2>6, <3>3, <3>4
  <2> QED  BY <2>4, <2>5, <2>6
<1>13. (\A e \in Days : Earned(u, e) <= Cap(e))'
  <2>1. \A e \in Days : Cap(e)' = Cap(e) /\ Days' = Days
    BY DEF Cap, Days, DayInWeek
  <2> QED  BY <1>12, <2>1
<1> QED  BY <1>3, <1>4, <1>11, <1>13 DEF Entitled

(* A user whose rows, balance and allowance stay as they are stays as      *)
(* entitled as he was; so does one whose balance moves by a posting.       *)
LEMMA StaysEntitled ==
  ASSUME NEW u, Entitled(u), accrued'[u] = accrued[u], balance'[u] >= 0,
         \/ allowance'[u] = allowance[u]
         \/ CreditedUpTo(u)'
  PROVE  Entitled(u)'
<1>1. \A d \in Days : Earned(u, d)' = Earned(u, d)
  BY DEF Earned
<1>2. CreditedUpTo(u)'  BY DEF Entitled, CreditedUpTo, HasRow
<1>3. (\A d \in Days : Earned(u, d) <= Cap(d))'  BY <1>1 DEF Entitled
<1> QED  BY <1>2, <1>3 DEF Entitled

\* The rest of AccrualInv: only balances that may be repaired are.
RepairsAllowed == \A h \in Repairs : repair[h].op = "repair" => repair[h].user \in Repairable

(* Every step of the allowance keeps every user within what is allowed.    *)
LEMMA AccrualStep ==
  ASSUME AllowanceAssumption, AccrualInv, TokensNext
  PROVE  AccrualInv'
<1> DEFINE Users == Holders \ Repairable
<1>1. AllowanceTypeOK /\ AllowanceTypeOK' /\ RepairsAllowed /\ \A v \in Users : Entitled(v)
  <2>1. AllowanceTypeOK /\ RepairsAllowed /\ \A v \in Users : Entitled(v)
    BY DEF AccrualInv, Entitled, RepairsAllowed
  <2> QED  BY <2>1, AllowanceStep
<1>2. RepairsAllowed' /\ (\A v \in Users : Entitled(v)') => AccrualInv'
  BY <1>1 DEF AccrualInv, Entitled, RepairsAllowed
<1>3. ASSUME repair' = repair  PROVE RepairsAllowed'
  BY <1>1, <1>3 DEF RepairsAllowed
<1>4. ASSUME NEW v \in Users,
             balance'[v] = balance[v], accrued'[v] = accrued[v], allowance'[v] = allowance[v]
      PROVE  Entitled(v)'
  BY <1>1, <1>4, StaysEntitled DEF Entitled
<1>5. CASE NextDay
  <2>1. UNCHANGED <<balance, allowance, accrued, others, repair>>  BY <1>5 DEF NextDay
  <2> QED  BY <1>2, <1>3, <1>4, <2>1
<1>6. ASSUME NEW u \in Holders, NEW d \in DaysRead, NEW spent, spent \in Nat, repair' = repair,
             spent <= balance[u] + CreditDue(u, d),
             balance' = [balance EXCEPT ![u] = (balance[u] + CreditDue(u, d)) - spent],
             accrued' = [accrued EXCEPT ![u][d] = @ + CreditDue(u, d)],
             allowance' = [allowance EXCEPT ![u] =
                             [remaining |-> (balance[u] + CreditDue(u, d)) - spent,
                              reset |-> ResetAfter(u, d)]]
      PROVE  AccrualInv'
  <2>1. ASSUME NEW v \in Users  PROVE Entitled(v)'
    <3>1. CASE v = u
      <4>1. d \in Days /\ u \in Holders \ Repairable  BY <3>1 DEF DaysRead
      <4>2. Entitled(u)'  BY <1>6, <4>1, CreditEntitled
      <4> QED  BY <3>1, <4>2
    <3>2. CASE v # u
      <4>1. balance'[v] = balance[v] /\ accrued'[v] = accrued[v] /\ allowance'[v] = allowance[v]
        BY <1>1, <1>6, <3>2 DEF AllowanceTypeOK
      <4> QED  BY <1>4, <4>1
    <3> QED  BY <3>1, <3>2
  <2> QED  BY <1>2, <1>3, <1>6, <2>1
<1>7. ASSUME NEW u \in Holders, NEW d \in DaysRead, EnsureAllowance(u, d)
      PROVE  AccrualInv'
  <2>1. d \in Days /\ CreditDue(u, d) \in Nat /\ balance[u] \in Int
    BY <1>1, CreditBound DEF AllowanceTypeOK, DaysRead
  <2>2. CASE u \in Repairable
    <3>1. ASSUME NEW v \in Users  PROVE Entitled(v)'
      <4>1. v # u /\ v \in Holders  BY <2>2
      <4>2. balance'[v] = balance[v] /\ accrued'[v] = accrued[v] /\ allowance'[v] = allowance[v]
        BY <1>1, <1>7, <4>1 DEF AllowanceTypeOK, EnsureAllowance
      <4> QED  BY <1>4, <4>2
    <3> QED  BY <1>2, <1>3, <1>7, <3>1 DEF EnsureAllowance
  <2>3. CASE u \notin Repairable
    <3>1. balance[u] >= 0  BY <1>1, <2>3 DEF Entitled
    <3>2. ASSUME NEW spent, spent = 0  PROVE AccrualInv'
      <4>1. spent \in Nat /\ balance[u] + CreditDue(u, d) = (balance[u] + CreditDue(u, d)) - spent
        BY <2>1, <3>2
      <4>2. spent <= balance[u] + CreditDue(u, d)  BY <2>1, <3>1, <3>2
      <4>3. balance' = [balance EXCEPT ![u] = (balance[u] + CreditDue(u, d)) - spent]
        BY <1>7, <4>1 DEF EnsureAllowance
      <4>4. accrued' = [accrued EXCEPT ![u][d] = @ + CreditDue(u, d)] /\ repair' = repair
        BY <1>7 DEF EnsureAllowance
      <4>5. allowance' = [allowance EXCEPT ![u] =
                            [remaining |-> (balance[u] + CreditDue(u, d)) - spent,
                             reset |-> ResetAfter(u, d)]]
        BY <1>7, <4>1 DEF EnsureAllowance
      <4> QED  BY <1>6, <4>1, <4>2, <4>3, <4>4, <4>5
    <3> QED  BY <3>2
  <2> QED  BY <2>2, <2>3
<1>8. ASSUME NEW u \in Holders, NEW d \in DaysRead, NEW amount \in Spends,
             ConsumeTokens(u, d, amount)
      PROVE  AccrualInv'
  <2>1. amount \in Nat  BY DEF AllowanceAssumption
  <2>2. amount <= balance[u] + CreditDue(u, d) /\ repair' = repair
    BY <1>8 DEF ConsumeTokens
  <2>3. balance' = [balance EXCEPT ![u] = (balance[u] + CreditDue(u, d)) - amount]
    BY <1>8 DEF ConsumeTokens
  <2>4. accrued' = [accrued EXCEPT ![u][d] = @ + CreditDue(u, d)]
    BY <1>8 DEF ConsumeTokens
  <2>5. allowance' = [allowance EXCEPT ![u] =
                        [remaining |-> (balance[u] + CreditDue(u, d)) - amount,
                         reset |-> ResetAfter(u, d)]]
    BY <1>8 DEF ConsumeTokens
  <2> QED  BY <1>6, <2>1, <2>2, <2>3, <2>4, <2>5
<1>9. ASSUME NEW u \in Holders, NEW amount \in Adjustments,
             AdminCredit(u, amount) \/ PostAndSync(u, amount)
      PROVE  AccrualInv'
  <2>1. /\ Post(u, amount) /\ accrued' = accrued /\ repair' = repair
        /\ \/ allowance' = allowance
           \/ allowance' = [allowance EXCEPT ![u] =
                              [remaining |-> balance'[u],
                               reset |-> IF HasRow(u) THEN allowance[u].reset ELSE today]]
    BY <1>9 DEF AdminCredit, PostAndSync
  <2>2. balance'[u] >= 0 /\ \A v \in Holders : v # u => balance'[v] = balance[v]
    BY <1>1, <2>1 DEF Post, AllowanceTypeOK
  <2>3. \A v \in Holders : v # u => allowance'[v] = allowance[v]
    BY <1>1, <2>1 DEF AllowanceTypeOK
  <2>4. ASSUME NEW v \in Users  PROVE Entitled(v)'
    <3>1. CASE v # u  BY <1>4, <2>1, <2>2, <2>3, <3>1
    <3>2. CASE v = u
      <4>1. CASE allowance'[u] = allowance[u]
        BY <1>1, <2>1, <2>2, <3>2, <4>1, StaysEntitled
      <4>2. CASE allowance'[u] # allowance[u]
        <5> DEFINE kept == IF HasRow(u) THEN allowance[u].reset ELSE today
        <5>1. allowance'[u] = [remaining |-> balance'[u], reset |-> kept]
          BY <1>1, <2>1, <4>2 DEF AllowanceTypeOK
        <5>2. HasRow(u) => kept = allowance[u].reset  OBVIOUS
        <5> HIDE DEF kept
        <5>3. allowance'[u].reset = kept  BY <5>1
        <5>4. CreditedUpTo(u)  BY <1>1, <3>2 DEF Entitled
        <5>5. CreditedUpTo(u)'
          <6> SUFFICES ASSUME NEW c \in Days, ~HasRow(u)' \/ c > allowance'[u].reset
                       PROVE  accrued[u][c] = 0
            BY <2>1 DEF CreditedUpTo
          <6>1. CASE ~HasRow(u)  BY <5>4, <6>1 DEF CreditedUpTo
          <6>2. CASE HasRow(u)
            <7>1. HasRow(u)'
              <8>1. balance'[u] \in Int /\ allowance'[u].reset \in Nat
                <9>1. balance'[u] \in Int  BY <1>1 DEF AllowanceTypeOK
                <9>2. allowance[u].reset \in Days  BY <1>1, <6>2 DEF AllowanceTypeOK, HasRow
                <9>3. Days \subseteq Nat  BY DEF Days
                <9> QED  BY <9>1, <9>2, <9>3, <5>2, <5>3, <6>2
              <8>2. allowance'[u] \in [remaining : Int, reset : Nat]
                BY <5>1, <5>3, <8>1
              <8> QED  BY <8>2 DEF HasRow, AllowanceAssumption
            <7> QED  BY <5>2, <5>3, <5>4, <6>2, <7>1 DEF CreditedUpTo
          <6> QED  BY <6>1, <6>2
        <5> QED  BY <1>1, <2>1, <2>2, <3>2, <5>5, StaysEntitled
      <4> QED  BY <4>1, <4>2
    <3> QED  BY <3>1, <3>2
  <2> QED  BY <1>2, <1>3, <2>1, <2>4
<1>10. ASSUME NEW h \in Repairs, NEW u \in Repairable, ReadForRepair(h, u)
       PROVE  AccrualInv'
  <2> DEFINE q == [op |-> "repair", user |-> u, sum |-> RowSum(u)]
  <2>1. /\ repair' = [repair EXCEPT ![h] = q] /\ UNCHANGED <<balance, allowance, accrued>>
        /\ q.user = u
    BY <1>10 DEF ReadForRepair
  <2> HIDE DEF q
  <2>2. RepairsAllowed'  BY <1>1, <2>1 DEF RepairsAllowed, AllowanceTypeOK
  <2> QED  BY <1>2, <1>4, <2>1, <2>2
<1>11. ASSUME NEW h \in Repairs, WriteRepair(h)
       PROVE  AccrualInv'
  <2>1. /\ repair[h].user \in Repairable /\ repair' = [repair EXCEPT ![h] = [op |-> "idle"]]
        /\ balance' = [balance EXCEPT ![repair[h].user] = repair[h].sum]
        /\ UNCHANGED <<allowance, accrued>>
    BY <1>1, <1>11 DEF WriteRepair, RepairsAllowed
  <2>2. RepairsAllowed'  BY <1>1, <2>1 DEF RepairsAllowed, AllowanceTypeOK
  <2>3. \A v \in Users : balance'[v] = balance[v]  BY <1>1, <2>1 DEF AllowanceTypeOK
  <2> QED  BY <1>2, <1>4, <2>1, <2>2, <2>3
<1> QED  BY <1>5, <1>7, <1>8, <1>9, <1>10, <1>11 DEF TokensNext

(* A new user has been credited nothing.                                   *)
LEMMA AccrualBegins ==
  ASSUME AllowanceAssumption, AllowanceInit
  PROVE  AccrualInv
<1>1. AllowanceTypeOK  BY AllowanceBegins
<1>2. /\ \A h \in Repairs : repair[h].op = "idle"
      /\ \A u \in Holders : balance[u] \in Nat
      /\ \A u \in Holders, c \in Days : accrued[u][c] = 0
  BY DEF AllowanceInit, AllowanceAssumption
<1>3. \A u \in Holders, d \in Days : Earned(u, d) <= Cap(d)
  <2> SUFFICES ASSUME NEW u \in Holders, NEW d \in Days  PROVE Earned(u, d) <= Cap(d)
    OBVIOUS
  <2>1. Earned(u, d) = 0  BY <1>1, <1>2, EarnedNothing DEF DayRun
  <2>2. d \in Nat  BY DEF Days
  <2>3. Cap(d) \in Nat  BY <2>2, CapGrows
  <2> QED  BY <2>1, <2>3
<1> QED  BY <1>1, <1>2, <1>3 DEF AccrualInv, CreditedUpTo

(* By any day of a week a user whose balance is not repaired has been      *)
(* credited no more allowance for that week than its start amount and the  *)
(* days gone by allow (tokenAllowance.ts:167-242), for any number of       *)
(* users, days and amounts.  That follows day by day only because nothing  *)
(* is ever credited to a day after the one its allowance row names, which  *)
(* AccrualInv carries, together with the balance being no debt.            *)
THEOREM AllowanceWithinEntitlement ==
  Spec => []AccrualWithinEntitlement
<1>1. Init => AccrualInv  BY AccrualBegins, AllowanceAssumption DEF Init
<1>2. AccrualInv /\ [Next]_accountVars => AccrualInv'
  <2> SUFFICES ASSUME AccrualInv, [Next]_accountVars  PROVE AccrualInv'
    OBVIOUS
  <2>1. CASE TokensNext  BY <2>1, AccrualStep, AllowanceAssumption
  <2>2. CASE UNCHANGED tokenVars
    BY <2>2 DEF tokenVars, AccrualInv, AllowanceTypeOK, CreditedUpTo, HasRow, Earned
  <2> QED  BY <2>1, <2>2, PartsMove
<1>3. AccrualInv => AccrualWithinEntitlement
  BY DEF AccrualInv, AccrualWithinEntitlement, Earned, DayRun, Cap
<1> QED  BY <1>1, <1>2, <1>3, PTL DEF Spec

-----------------------------------------------------------------------------
(* The password *)

AccountRow == DOMAIN account = {"password", "email", "verified"}

(* Only a request of a link that is in the table sets a link's password.   *)
LEMMA PasswordStep ==
  ASSUME CredentialsAssumption, AccountRow, CredentialsNext
  PROVE  /\ AccountRow'
         /\ \A l \in ResetLinks :
              link[l].row = "gone" /\ account'.password = l => account.password = l
<1> DEFINE Dead == \A l \in ResetLinks :
              link[l].row = "gone" /\ account'.password = l => account.password = l
<1>1. ASSUME account' = account  PROVE AccountRow' /\ Dead
  BY <1>1 DEF AccountRow
<1>2. ASSUME NEW v \in Visitors, NEW a \in Addresses, NEW p \in Typed, Register(v, a, p)
      PROVE  AccountRow' /\ Dead
  <2>1. account' = [password |-> p, email |-> a, verified |-> FALSE]  BY <1>2 DEF Register
  <2> QED  BY <2>1 DEF AccountRow, CredentialsAssumption
<1>3. ASSUME NEW v \in Visitors, NEW p \in Typed, ChangeCommit(v, p)
      PROVE  AccountRow' /\ Dead
  <2>1. account' = [account EXCEPT !.password = p]  BY <1>3 DEF ChangeCommit
  <2> QED  BY <2>1 DEF AccountRow, CredentialsAssumption
<1>4. ASSUME NEW v \in Visitors, ResetCommit(v)
      PROVE  AccountRow' /\ Dead
  <2>1. CASE ~Committed(request[v].link)  BY <1>1, <1>4, <2>1 DEF ResetCommit
  <2>2. CASE Committed(request[v].link)
    <3>1. account' = [account EXCEPT !.password = request[v].link]
      BY <1>4, <2>2 DEF ResetCommit
    <3>2. account'.password = request[v].link /\ AccountRow'
      BY <3>1 DEF AccountRow
    <3>3. link[request[v].link].row # "gone"  BY <2>2 DEF Committed, Rows
    <3> QED  BY <3>2, <3>3
  <2> QED  BY <2>1, <2>2
<1>5. ASSUME NEW v \in Visitors, VerifyCommit(v) \/ ProfileCommit(v)
      PROVE  AccountRow' /\ Dead
  <2>1. account'.password = account.password /\ AccountRow'
    BY <1>5 DEF VerifyCommit, ProfileCommit, AccountRow
  <2> QED  BY <2>1
<1>6. ASSUME NEW v \in Visitors,
             \/ \E a \in Addresses : AskForgot(v, a)
             \/ \E a \in Addresses, p \in Passwords : AskProfile(v, a, p)
             \/ \E p \in Passwords : AskChange(v, p)
             \/ AskResend(v)
             \/ \E l \in ResetLinks : AskReset(v, l) \/ ForgotCreate(v, l)
             \/ \E l \in VerifyLinks : AskVerify(v, l) \/ ResendCreate(v, l)
             \/ ForgotRead(v) \/ ForgotDelete(v) \/ ResetRead(v)
             \/ ResendRead(v) \/ ResendDelete(v) \/ VerifyRead(v) \/ ProfileRead(v) \/ ChangeRead(v)
      PROVE  account' = account
  BY <1>6 DEF AskForgot, AskProfile, AskChange, AskResend, AskReset, AskVerify, Ask,
     ForgotCreate, ResendCreate, Mailed, ForgotRead, ForgotDelete, ResetRead, Accept, ResendRead,
     ResendDelete, VerifyRead, ProfileRead, ChangeRead
<1>7. ASSUME NEW l \in Links, Expired(l)  PROVE account' = account
  BY <1>7 DEF Expired
<1> QED  BY <1>1, <1>2, <1>3, <1>4, <1>5, <1>6, <1>7 DEF CredentialsNext

(* A reset link that a newer request replaced sets no password any more,   *)
(* not even for a request that had found it in order (auth.ts:555-594),    *)
(* for any number of browsers, links and addresses.                        *)
THEOREM ReplacedLinkSetsNothing ==
  Spec => ReplacedLinkIsDead
<1> DEFINE Dead == \A l \in ResetLinks :
              link[l].row = "gone" /\ account'.password = l => account.password = l
<1>1. Init => AccountRow  BY DEF Init, CredentialsInit, AccountRow
<1>2. AccountRow /\ [Next]_accountVars => AccountRow' /\ [Dead]_credentialVars
  <2> SUFFICES ASSUME AccountRow, [Next]_accountVars
               PROVE  AccountRow' /\ [Dead]_credentialVars
    OBVIOUS
  <2>1. CASE CredentialsNext  BY <2>1, PasswordStep, CredentialsAssumption
  <2>2. CASE UNCHANGED credentialVars  BY <2>2 DEF credentialVars, AccountRow
  <2> QED  BY <2>1, <2>2, PartsMove
<1> QED  BY <1>1, <1>2, PTL DEF Spec, ReplacedLinkIsDead

\* The parts of CredentialsTypeOK.
AccountRows == [password : Passwords \cup {Unset}, email : Addresses \cup {Unset},
                verified : BOOLEAN]
LinkRows == [row : {"none", "live", "used", "gone"}, expired : BOOLEAN, to : Addresses \cup {Unset}]
VisitorRequests ==
  [op : {"none", "forgot", "reset", "resend", "verify", "change", "profile"},
   step : {"read", "delete", "create", "commit"}, link : Links \cup {Unset},
   address : Addresses \cup {Unset}, password : Passwords \cup {Unset}]

(* They are its parts.                                                     *)
LEMMA CredentialsTypes ==
  /\ CredentialsTypeOK <=> /\ account \in AccountRows /\ link \in [Links -> LinkRows]
                           /\ request \in [Visitors -> VisitorRequests]
  /\ CredentialsTypeOK' <=> /\ account' \in AccountRows /\ link' \in [Links -> LinkRows]
                            /\ request' \in [Visitors -> VisitorRequests]
BY DEF CredentialsTypeOK, AccountRows, LinkRows, VisitorRequests

(* What a request does to itself keeps its type.                           *)
LEMMA RequestTypes ==
  ASSUME CredentialsTypeOK, NEW v \in Visitors
  PROVE  /\ Idle \in VisitorRequests
         /\ [Idle EXCEPT !.op = "resend"] \in VisitorRequests
         /\ \A r \in VisitorRequests :
              request' = [request EXCEPT ![v] = r] => request' \in [Visitors -> VisitorRequests]
         /\ Done(v) => request' \in [Visitors -> VisitorRequests]
         /\ \A s \in {"delete", "create", "commit"} :
              Proceed(v, s) => request' \in [Visitors -> VisitorRequests]
<1>1. request \in [Visitors -> VisitorRequests]  BY CredentialsTypes
<1>2. Idle \in VisitorRequests  BY DEF Idle, VisitorRequests
<1>3. \A r \in VisitorRequests :
        request' = [request EXCEPT ![v] = r] => request' \in [Visitors -> VisitorRequests]
  BY <1>1
<1>4. Done(v) => request' \in [Visitors -> VisitorRequests]  BY <1>2, <1>3 DEF Done
<1>5. ASSUME NEW s \in {"delete", "create", "commit"}, Proceed(v, s)
      PROVE  request' \in [Visitors -> VisitorRequests]
  <2> DEFINE q == [request[v] EXCEPT !.step = s]
  <2>1. request[v] \in VisitorRequests  BY <1>1
  <2>2. q \in VisitorRequests  BY <2>1 DEF VisitorRequests
  <2>3. request' = [request EXCEPT ![v] = q]  BY <1>5 DEF Proceed
  <2> HIDE DEF q
  <2> QED  BY <1>3, <2>2, <2>3
<1>6. [Idle EXCEPT !.op = "resend"] \in VisitorRequests  BY DEF Idle, VisitorRequests
<1> QED  BY <1>2, <1>3, <1>4, <1>5, <1>6

(* Whatever links are taken out of the table, the table keeps its type.    *)
LEMMA WithoutTypes ==
  ASSUME link \in [Links -> LinkRows]
  PROVE  \A L : Without(L) \in [Links -> LinkRows]
<1> SUFFICES ASSUME NEW L  PROVE Without(L) \in [Links -> LinkRows]
  OBVIOUS
<1>1. \A l \in Links : link[l] \in LinkRows /\ [link[l] EXCEPT !.row = "gone"] \in LinkRows
  BY DEF LinkRows
<1> QED  BY <1>1 DEF Without

(* Every step of the account's credentials keeps their types.              *)
LEMMA CredentialsTypesStep ==
  ASSUME CredentialsTypeOK, CredentialsNext
  PROVE  CredentialsTypeOK'
<1>1. account \in AccountRows /\ link \in [Links -> LinkRows]
      /\ request \in [Visitors -> VisitorRequests]
  BY CredentialsTypes
<1>2. ASSUME account' \in AccountRows, link' \in [Links -> LinkRows],
             request' \in [Visitors -> VisitorRequests]
      PROVE  CredentialsTypeOK'
  BY <1>2, CredentialsTypes
<1>3. ASSUME NEW l \in Links, Expired(l)  PROVE CredentialsTypeOK'
  <2> DEFINE row == [link[l] EXCEPT !.expired = TRUE]
  <2>1. link[l] \in LinkRows  BY <1>1
  <2>2. row \in LinkRows  BY <2>1 DEF LinkRows
  <2>3. link' = [link EXCEPT ![l] = row] /\ UNCHANGED <<account, request>>
    BY <1>3 DEF Expired
  <2> HIDE DEF row
  <2> QED  BY <1>1, <1>2, <2>2, <2>3
<1>4. ASSUME NEW v \in Visitors, NEW r \in VisitorRequests, Ask(v, r)  PROVE CredentialsTypeOK'
  <2>1. request' = [request EXCEPT ![v] = r] /\ UNCHANGED <<account, link>>  BY <1>4 DEF Ask
  <2> QED  BY <1>1, <1>2, <2>1
<1>5. ASSUME NEW v \in Visitors,
             \/ \E a \in Addresses : AskForgot(v, a)
             \/ \E a \in Addresses, p \in Passwords : AskProfile(v, a, p)
             \/ \E p \in Passwords : AskChange(v, p)
             \/ AskResend(v)
             \/ \E l \in ResetLinks : AskReset(v, l)
             \/ \E l \in VerifyLinks : AskVerify(v, l)
      PROVE  CredentialsTypeOK'
  <2>1. PICK r \in VisitorRequests : Ask(v, r)
    <3>1. CASE \E a \in Addresses : AskForgot(v, a)
      <4>1. PICK a \in Addresses : AskForgot(v, a)  BY <3>1
      <4>2. [Idle EXCEPT !.op = "forgot", !.address = a] \in VisitorRequests
        BY DEF Idle, VisitorRequests
      <4> QED  BY <4>1, <4>2 DEF AskForgot
    <3>2. CASE \E a \in Addresses, p \in Passwords : AskProfile(v, a, p)
      <4>1. PICK a \in Addresses, p \in Passwords : AskProfile(v, a, p)  BY <3>2
      <4>2. [Idle EXCEPT !.op = "profile", !.address = a, !.password = p] \in VisitorRequests
        BY DEF Idle, VisitorRequests
      <4> QED  BY <4>1, <4>2 DEF AskProfile
    <3>3. CASE \E p \in Passwords : AskChange(v, p)
      <4>1. PICK p \in Passwords : AskChange(v, p)  BY <3>3
      <4>2. [Idle EXCEPT !.op = "change", !.password = p] \in VisitorRequests
        BY DEF Idle, VisitorRequests
      <4> QED  BY <4>1, <4>2 DEF AskChange
    <3>4. CASE AskResend(v)
      <4>1. [Idle EXCEPT !.op = "resend"] \in VisitorRequests  BY DEF Idle, VisitorRequests
      <4> QED  BY <3>4, <4>1 DEF AskResend
    <3>5. CASE \E l \in ResetLinks : AskReset(v, l)
      <4>1. PICK l \in ResetLinks : AskReset(v, l)  BY <3>5
      <4>2. [Idle EXCEPT !.op = "reset", !.link = l] \in VisitorRequests
        BY DEF Idle, VisitorRequests, Links
      <4> QED  BY <4>1, <4>2 DEF AskReset
    <3>6. CASE \E l \in VerifyLinks : AskVerify(v, l)
      <4>1. PICK l \in VerifyLinks : AskVerify(v, l)  BY <3>6
      <4>2. [Idle EXCEPT !.op = "verify", !.link = l] \in VisitorRequests
        BY DEF Idle, VisitorRequests, Links
      <4> QED  BY <4>1, <4>2 DEF AskVerify
    <3> QED  BY <1>5, <3>1, <3>2, <3>3, <3>4, <3>5, <3>6
  <2> QED  BY <1>4, <2>1
<1>6. ASSUME NEW v \in Visitors, NEW l \in Links, Mailed(v, l)  PROVE CredentialsTypeOK'
  <2>1. PICK to \in {request[v].address, Unset} :
          link' = [link EXCEPT ![l] = [row |-> "live", expired |-> FALSE, to |-> to]]
    BY <1>6 DEF Mailed
  <2> DEFINE row == [row |-> "live", expired |-> FALSE, to |-> to]
  <2>2. request[v] \in VisitorRequests  BY <1>1
  <2>3. to \in Addresses \cup {Unset}  BY <2>2 DEF VisitorRequests
  <2>4. row \in LinkRows  BY <2>3 DEF LinkRows
  <2>5. link' = [link EXCEPT ![l] = row]  BY <2>1
  <2> HIDE DEF row
  <2>6. link' \in [Links -> LinkRows]  BY <1>1, <2>4, <2>5
  <2>7. Done(v) /\ account' = account  BY <1>6 DEF Mailed
  <2> QED  BY <1>1, <1>2, <2>6, <2>7, RequestTypes
<1>7. ASSUME NEW v \in Visitors,
             \/ \E l \in ResetLinks : ForgotCreate(v, l)
             \/ \E l \in VerifyLinks : ResendCreate(v, l)
      PROVE  CredentialsTypeOK'
  BY <1>6, <1>7 DEF ForgotCreate, ResendCreate, Links
<1>8. ASSUME NEW v \in Visitors, ResetRead(v) \/ VerifyRead(v)  PROVE CredentialsTypeOK'
  <2>1. /\ account' = account /\ (Proceed(v, "commit") \/ Done(v))
        /\ link' = link \/ \E L : link' = Without(L)
    BY <1>8 DEF ResetRead, VerifyRead, Accept
  <2>2. link' \in [Links -> LinkRows]  BY <1>1, <2>1, WithoutTypes
  <2>3. request' \in [Visitors -> VisitorRequests]  BY <2>1, RequestTypes
  <2> QED  BY <1>1, <1>2, <2>1, <2>2, <2>3
<1>9. ASSUME NEW v \in Visitors, ForgotRead(v) \/ ChangeRead(v)  PROVE CredentialsTypeOK'
  <2>1. UNCHANGED <<account, link>>
        /\ (Proceed(v, "delete") \/ Proceed(v, "commit") \/ Done(v))
    BY <1>9 DEF ForgotRead, ChangeRead
  <2>2. request' \in [Visitors -> VisitorRequests]  BY <2>1, RequestTypes
  <2> QED  BY <1>1, <1>2, <2>1, <2>2
<1>10. ASSUME NEW v \in Visitors, ForgotDelete(v) \/ ResendDelete(v)  PROVE CredentialsTypeOK'
  <2>1. account' = account /\ Proceed(v, "create") /\ \E L : link' = Without(L)
    BY <1>10 DEF ForgotDelete, ResendDelete
  <2>2. link' \in [Links -> LinkRows]  BY <1>1, <2>1, WithoutTypes
  <2>3. request' \in [Visitors -> VisitorRequests]  BY <2>1, RequestTypes
  <2> QED  BY <1>1, <1>2, <2>1, <2>2, <2>3
<1>11. ASSUME NEW v \in Visitors, ResetCommit(v)  PROVE CredentialsTypeOK'
  <2>1. request' \in [Visitors -> VisitorRequests]  BY <1>11, RequestTypes DEF ResetCommit
  <2>2. CASE ~Committed(request[v].link)  BY <1>1, <1>2, <1>11, <2>1, <2>2 DEF ResetCommit
  <2>3. CASE Committed(request[v].link)
    <3>1. request[v].link \in ResetLinks  BY <2>3 DEF Committed, Rows
    <3>2. PICK l \in ResetLinks : l = request[v].link  BY <3>1
    <3>3. /\ account' = [account EXCEPT !.password = l]
          /\ link' = [link EXCEPT ![l].row = "used"]
      BY <1>11, <2>3, <3>2 DEF ResetCommit
    <3>4. account' \in AccountRows  BY <1>1, <3>3 DEF AccountRows, Passwords
    <3> DEFINE row == [link[l] EXCEPT !.row = "used"]
    <3>5. l \in Links /\ link[l] \in LinkRows  BY <1>1 DEF Links
    <3>6. row \in LinkRows  BY <3>5 DEF LinkRows
    <3>7. link' = [link EXCEPT ![l] = row]  BY <3>3
    <3> HIDE DEF row
    <3>8. link' \in [Links -> LinkRows]  BY <1>1, <3>6, <3>7
    <3> QED  BY <1>2, <2>1, <3>4, <3>8
  <2> QED  BY <2>2, <2>3
<1>12. ASSUME NEW v \in Visitors, NEW a \in Addresses, NEW p \in Typed, Register(v, a, p)
       PROVE  CredentialsTypeOK'
  <2>1. account' \in AccountRows  BY <1>12 DEF Register, AccountRows, Passwords
  <2>2. request' \in [Visitors -> VisitorRequests]  BY <1>12, RequestTypes DEF Register
  <2> QED  BY <1>1, <1>2, <1>12, <2>1, <2>2 DEF Register
<1>13. ASSUME NEW v \in Visitors, NEW p \in Typed, ChangeCommit(v, p)
       PROVE  CredentialsTypeOK'
  <2>1. account' \in AccountRows  BY <1>1, <1>13 DEF ChangeCommit, AccountRows, Passwords
  <2>2. request' \in [Visitors -> VisitorRequests]  BY <1>13, RequestTypes DEF ChangeCommit
  <2> QED  BY <1>1, <1>2, <1>13, <2>1, <2>2 DEF ChangeCommit
<1>14. ASSUME NEW v \in Visitors, ResendRead(v)  PROVE CredentialsTypeOK'
  <2>1. UNCHANGED <<account, link>>  BY <1>14 DEF ResendRead
  <2>2. request' \in [Visitors -> VisitorRequests]
    <3>1. CASE account.verified  BY <1>14, <3>1, RequestTypes DEF ResendRead
    <3>2. CASE ~account.verified
      <4> DEFINE q == [request[v] EXCEPT !.step = "delete", !.address = account.email]
      <4>1. request[v] \in VisitorRequests /\ account.email \in Addresses \cup {Unset}
        BY <1>1 DEF AccountRows
      <4>2. q \in VisitorRequests  BY <4>1 DEF VisitorRequests
      <4>3. request' = [request EXCEPT ![v] = q]  BY <1>1, <1>14, <3>2 DEF ResendRead
      <4> HIDE DEF q
      <4> QED  BY <4>2, <4>3, RequestTypes
    <3> QED  BY <3>1, <3>2
  <2> QED  BY <1>1, <1>2, <2>1, <2>2
<1>15. ASSUME NEW v \in Visitors, VerifyCommit(v)  PROVE CredentialsTypeOK'
  <2>1. account' \in AccountRows  BY <1>1, <1>15 DEF VerifyCommit, AccountRows
  <2>2. request' \in [Visitors -> VisitorRequests]  BY <1>15, RequestTypes DEF VerifyCommit
  <2>3. PICK l : l = request[v].link  OBVIOUS
  <2>4. PICK table \in [Links -> LinkRows] : table = Without(VerifyLinks \ {l})
    BY <1>1, WithoutTypes
  <2>5. link' = [table EXCEPT ![l].row = IF l \in Rows({l}) THEN "used" ELSE @]
    BY <1>15, <2>3, <2>4 DEF VerifyCommit
  <2>6. CASE l \in Links
    <3> DEFINE row == [table[l] EXCEPT !.row = IF l \in Rows({l}) THEN "used" ELSE @]
    <3>1. table[l] \in LinkRows  BY <2>6
    <3>2. row \in LinkRows  BY <3>1 DEF LinkRows
    <3>3. link' = [table EXCEPT ![l] = row]  BY <2>5
    <3> HIDE DEF row
    <3>4. link' \in [Links -> LinkRows]  BY <3>2, <3>3
    <3> QED  BY <1>2, <2>1, <2>2, <3>4
  <2>7. CASE l \notin Links
    <3>1. link' = table  BY <2>5, <2>7
    <3> QED  BY <1>2, <2>1, <2>2, <3>1
  <2> QED  BY <2>6, <2>7
<1>16. ASSUME NEW v \in Visitors, ProfileRead(v)  PROVE CredentialsTypeOK'
  <2>1. /\ UNCHANGED <<account, link>>
        /\ \/ Proceed(v, "commit") \/ Done(v)
           \/ request' = [request EXCEPT ![v] = [Idle EXCEPT !.op = "resend"]]
    BY <1>16 DEF ProfileRead
  <2>2. request' \in [Visitors -> VisitorRequests]  BY <2>1, RequestTypes
  <2> QED  BY <1>1, <1>2, <2>1, <2>2
<1>17. ASSUME NEW v \in Visitors, ProfileCommit(v)  PROVE CredentialsTypeOK'
  <2>1. request[v] \in VisitorRequests  BY <1>1
  <2>2. request[v].address \in Addresses \cup {Unset}  BY <2>1 DEF VisitorRequests
  <2>3. account' \in AccountRows  BY <1>1, <1>17, <2>2 DEF ProfileCommit, AccountRows
  <2>4. request' \in [Visitors -> VisitorRequests]  BY <1>17, RequestTypes DEF ProfileCommit
  <2> QED  BY <1>1, <1>2, <1>17, <2>3, <2>4 DEF ProfileCommit
<1> QED
  BY <1>3, <1>5, <1>7, <1>8, <1>9, <1>10, <1>11, <1>12, <1>13, <1>14, <1>15, <1>16, <1>17
     DEF CredentialsNext

-----------------------------------------------------------------------------
(* The types of the account *)

(* The tables, the balances and the requests in flight keep their types,   *)
(* for any number of users, rewards, days and requests: a points balance   *)
(* never turns negative, though a token balance may, after a repair.       *)
THEOREM AccountTypeCorrect ==
  Spec => []AccountTypeOK
<1>1. Init => AccountTypeOK
  <2> SUFFICES ASSUME Init  PROVE AccountTypeOK
    OBVIOUS
  <2>1. ShopTypeOK  BY ShopTypesBegin, RewardsAssumption DEF Init
  <2>2. AllowanceTypeOK  BY AllowanceBegins, AllowanceAssumption DEF Init
  <2>3. CredentialsTypeOK  BY DEF Init, CredentialsInit, CredentialsTypeOK, Unsent, Idle
  <2> QED  BY <2>1, <2>2, <2>3 DEF AccountTypeOK
<1>2. AccountTypeOK /\ [Next]_accountVars => AccountTypeOK'
  <2> SUFFICES ASSUME AccountTypeOK, [Next]_accountVars  PROVE AccountTypeOK'
    OBVIOUS
  <2>1. ShopTypeOK'
    <3>1. CASE ShopNext  BY <3>1, ShopTypesStep, RewardsAssumption DEF AccountTypeOK
    <3>2. CASE UNCHANGED shopVars  BY <3>2 DEF shopVars, ShopTypeOK, AccountTypeOK
    <3> QED  BY <3>1, <3>2, PartsMove
  <2>2. AllowanceTypeOK'
    <3>1. CASE TokensNext  BY <3>1, AllowanceStep, AllowanceAssumption DEF AccountTypeOK
    <3>2. CASE UNCHANGED tokenVars  BY <3>2 DEF tokenVars, AllowanceTypeOK, AccountTypeOK
    <3> QED  BY <3>1, <3>2, PartsMove
  <2>3. CredentialsTypeOK'
    <3>1. CASE CredentialsNext  BY <3>1, CredentialsTypesStep DEF AccountTypeOK
    <3>2. CASE UNCHANGED credentialVars
      BY <3>2 DEF credentialVars, CredentialsTypeOK, AccountTypeOK
    <3> QED  BY <3>1, <3>2, PartsMove
  <2> QED  BY <2>1, <2>2, <2>3 DEF AccountTypeOK
<1> QED  BY <1>1, <1>2, PTL DEF Spec
=============================================================================
