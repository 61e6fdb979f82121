----------------------------- MODULE Allowance -----------------------------
(***************************************************************************)
(* The weekly and daily token allowance (services/tokenAllowance.ts) and   *)
(* the token ledger's administration (services/ledger.ts: repairBalance,   *)
(* admin credits).                                                         *)
(*                                                                         *)
(* ensureAllowance locks the User row and then the TokenAllowance row, so  *)
(* each of its transactions is one step; but it computes the day before it *)
(* waits for the locks, so it may act on the day before.  repairBalance    *)
(* sums the rows and writes the balance in two statements without a lock.  *)
(***************************************************************************)
EXTENDS Integers, FiniteSets, Functions

CONSTANTS
  Holders,       \* User rows
  WeekDays,      \* days of a week (7)
  WeeklyStart,   \* WEEKLY_START_TOKENS
  Daily,         \* DAILY_ALLOWANCE_TOKENS
  MaxAllowance,  \* MAX_ALLOWANCE_TOKENS
  Signup,        \* SIGNUP_BONUS_TOKENS
  Spends,        \* stakes
  Adjustments,   \* refunds and bonuses (positive), stakes taken again (negative)
  Repairs,       \* repair requests in flight
  Repairable,    \* the users an administrator repairs
  MaxDay,        \* bound: days
  MaxPosted,     \* bound: adjustments in total
  NoRow          \* no TokenAllowance row

ASSUME AllowanceAssumption ==
  /\ WeekDays \in Nat \ {0} /\ WeeklyStart \in Nat /\ Daily \in Nat /\ MaxAllowance \in Nat
  /\ Signup \in Nat /\ MaxDay \in Nat /\ MaxPosted \in Nat
  /\ Repairable \subseteq Holders
  /\ Spends \subseteq Nat \ {0} /\ Adjustments \subseteq Int
  /\ NoRow \notin [remaining : Int, reset : Nat]

VARIABLES
  today,       \* the UTC day, counted from a Monday
  balance,     \* User.tokenBalance
  allowance,   \* the TokenAllowance table
  accrued,     \* DAILY_ALLOWANCE rows: tokens by user and by the day they were computed for
  others,      \* the other TokenTransaction rows of each user, summed
  repair       \* repair[h]: the sum a repair request has read

tokenVars == <<today, balance, allowance, accrued, others, repair>>

Days == 0 .. MaxDay
RepairRequests == [op : {"idle"}] \cup [op : {"repair"}, user : Holders, sum : Int]

AllowanceTypeOK ==
  /\ today \in Days
  /\ balance \in [Holders -> Int]
  /\ allowance \in [Holders -> {NoRow} \cup [remaining : Int, reset : Days]]
  /\ accrued \in [Holders -> [Days -> Nat]]
  /\ others \in [Holders -> Int]
  /\ repair \in [Repairs -> RepairRequests]

-----------------------------------------------------------------------------

Smaller(a, b) == IF a < b THEN a ELSE b
Positive(n) == IF n > 0 THEN n ELSE 0

WeekOf(d) == d \div WeekDays
DayInWeek(d) == d % WeekDays

Entitlement(d) == Smaller(MaxAllowance, WeeklyStart + DayInWeek(d) * Daily)

DailyAccrual(days, held) == Smaller(Positive(MaxAllowance - held), days * Daily)

HasRow(u) == allowance[u] # NoRow
NewWeek(u, d) == ~HasRow(u) \/ WeekOf(allowance[u].reset) < WeekOf(d)
NewDay(u, d) == ~HasRow(u) \/ allowance[u].reset < d

\* Mutant: the room below the maximum is taken from the allowance row.
CreditDueFromRow(u, d) ==
  IF NewWeek(u, d) THEN Positive(Entitlement(d) - balance[u])
  ELSE IF NewDay(u, d) THEN DailyAccrual(d - allowance[u].reset, allowance[u].remaining)
  ELSE 0

\* What ensureAllowance credits user u on day d.
CreditDue(u, d) ==
  IF NewWeek(u, d) THEN Positive(Entitlement(d) - balance[u])
  ELSE IF NewDay(u, d) THEN DailyAccrual(d - allowance[u].reset, balance[u])
  ELSE 0

\* Mutant: a day is not marked as paid when nothing but days of this week were due.
ResetKept(u, d) == IF NewWeek(u, d) THEN d ELSE allowance[u].reset

\* lastResetDate after ensureAllowance; a request of the day before leaves a later one.
ResetAfter(u, d) == IF NewDay(u, d) THEN d ELSE allowance[u].reset

\* The days a request may have read before it got its locks.
DaysRead == {d \in Days : d = today \/ d = today - 1}

AllowanceInit ==
  /\ today = 0
  /\ balance = [u \in Holders |-> Signup]
  /\ allowance = [u \in Holders |-> NoRow]
  /\ accrued = [u \in Holders |-> [d \in Days |-> 0]]
  /\ others = [u \in Holders |-> Signup]
  /\ repair = [h \in Repairs |-> [op |-> "idle"]]

NextDay == today < MaxDay /\ today' = today + 1
           /\ UNCHANGED <<balance, allowance, accrued, others, repair>>

\* getOrCreateStatus: a sign-in, or a look at the wallet
EnsureAllowance(u, d) ==
  LET total == balance[u] + CreditDue(u, d)
  IN  /\ CreditDue(u, d) > 0 => total >= 0
      /\ balance' = [balance EXCEPT ![u] = total]
      /\ accrued' = [accrued EXCEPT ![u][d] = @ + CreditDue(u, d)]
      /\ allowance' = [allowance EXCEPT ![u] = [remaining |-> total, reset |-> ResetAfter(u, d)]]
      /\ UNCHANGED <<today, others, repair>>

\* The stake is taken from what the user has once the allowance is paid.
ConsumeTokens(u, d, amount) ==
  LET total == balance[u] + CreditDue(u, d)
  IN  /\ amount <= total
      /\ others[u] - amount >= -MaxPosted
      /\ balance' = [balance EXCEPT ![u] = total - amount]
      /\ accrued' = [accrued EXCEPT ![u][d] = @ + CreditDue(u, d)]
      /\ others' = [others EXCEPT ![u] = @ - amount]
      /\ allowance' = [allowance EXCEPT ![u] =
                         [remaining |-> total - amount, reset |-> ResetAfter(u, d)]]
      /\ UNCHANGED <<today, repair>>

\* Mutant: the balance is moved without a row.
PostBalanceOnly(u, amount) ==
  /\ balance[u] + amount >= 0
  /\ others[u] + amount \in -MaxPosted .. MaxPosted
  /\ balance' = [balance EXCEPT ![u] = @ + amount]
  /\ UNCHANGED others

\* A posting of the ledger (executeAtomicChange).
Post(u, amount) ==
  /\ balance[u] + amount >= 0
  /\ others[u] + amount \in -MaxPosted .. MaxPosted
  /\ balance' = [balance EXCEPT ![u] = @ + amount]
  /\ others' = [others EXCEPT ![u] = @ + amount]

\* POST /admin/tokens/credit: the allowance row is left as it was.
AdminCredit(u, amount) ==
  /\ amount > 0
  /\ Post(u, amount)
  /\ UNCHANGED <<today, allowance, accrued, repair>>

\* A refund, a streak bonus or a restored stake, followed by syncToLedgerBalance, which
\* creates a missing row as if this day had been paid.
PostAndSync(u, amount) ==
  /\ amount # 0
  /\ Post(u, amount)
  /\ allowance' = [allowance EXCEPT ![u] =
                     [remaining |-> balance'[u],
                      reset |-> IF HasRow(u) THEN allowance[u].reset ELSE today]]
  /\ UNCHANGED <<today, accrued, repair>>

\* The balance the rows add up to.
RowSum(u) == others[u] + SumFunctionOnSet(accrued[u], Days)

ReadForRepair(h, u) ==
  /\ repair[h].op = "idle"
  /\ repair' = [repair EXCEPT ![h] = [op |-> "repair", user |-> u, sum |-> RowSum(u)]]
  /\ UNCHANGED <<today, balance, allowance, accrued, others>>

WriteRepair(h) ==
  /\ repair[h].op = "repair"
  /\ balance' = [balance EXCEPT ![repair[h].user] = repair[h].sum]
  /\ repair' = [repair EXCEPT ![h] = [op |-> "idle"]]
  /\ UNCHANGED <<today, allowance, accrued, others>>

TokensNext ==
  \/ NextDay
  \/ \E u \in Holders, d \in DaysRead :
       \/ EnsureAllowance(u, d)
       \/ \E amount \in Spends : ConsumeTokens(u, d, amount)
  \/ \E u \in Holders, amount \in Adjustments : AdminCredit(u, amount) \/ PostAndSync(u, amount)
  \/ \E h \in Repairs, u \in Repairable : ReadForRepair(h, u)
  \/ \E h \in Repairs : WriteRepair(h)
============================================================================
