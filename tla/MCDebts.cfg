SPECIFICATION Spec
CONSTANTS
  Users = {u1, u2}
  Preds = {p1, p2, p3}
  Accas = {}
  Events = {e1, e2}
  Names = {"home", "away"}
  Norm <- MCNorm
  Stakes = {2}
  Prices = {3}
  Scale = 2
  DriftPercent = 10
  None = None
  CombinedPayout <- MCCombinedPayout
  MaxLegs = 10
  Handlers = {h1}
  OutcomeLists = {{"home", "away"}}
  Accruals = {0}
  Bonuses = {0, 1}
  SignupBonus = 2
  DeleteAge = 1
  MaxTime = 1
  MaxStaked = 4
SYMMETRY MCDebtSymmetry
INVARIANTS TypeOK BalancesMatchLedgers
CHECK_DEADLOCK FALSE
