SPECIFICATION MCSpec
CONSTANTS
  Customers = {c1, c2}
  r1 = r1
  r2 = r2
  Rewards = {r1, r2}
  Redemptions = {x1, x2}
  Costs = {1, 2}
  Limits <- MCLimits
  StartPoints = 3
  Desks = {d1, d2}
  None = None
  Holders = {u1, u2}
  Repairable = {u2}
  WeekDays = 2
  WeeklyStart = 2
  Daily = 1
  MaxAllowance = 3
  Signup = 1
  Spends = {2}
  Adjustments = {1}
  Repairs = {h1}
  MaxDay = 3
  MaxPosted = 2
  NoRow = NoRow
  Visitors = {v1, v2}
  reset1 = reset1
  reset2 = reset2
  verify1 = verify1
  verify2 = verify2
  ResetLinks = {reset1, reset2}
  VerifyLinks = {verify1, verify2}
  Addresses = {home, work}
  Typed = {old, new}
  Unset = Unset
SYMMETRY MCSymmetry
CONSTRAINT Bounds
INVARIANTS AccountTypeOK AccrualWithinEntitlement
PROPERTIES RedemptionMoney StockCountsItems NeverOversold AllowanceKeepsMaximum DriftOnlyByRepair ReplacedLinkIsDead
CHECK_DEADLOCK FALSE
