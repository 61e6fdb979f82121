SPECIFICATION Spec
CONSTANTS
  Users = {u1}
  Preds = {p1}
  Accas = {}
  Events = {e1}
  Names = {"home", "away"}
  Norm <- MCNorm
  Stakes = {2}
  Prices = {3}
  Scale = 2
  DriftPercent = 10
  None = None
  CombinedPayout <- MCCombinedPayout
  MaxLegs = 10
  Handlers = {h1, h2}
  OutcomeLists = {{"home", "away"}}
  Accruals = {0}
  Bonuses = {0}
  SignupBonus = 2
  DeleteAge = 0
  MaxTime = 1
  MaxStaked = 4
PROPERTY SettledIsFinal
CHECK_DEADLOCK FALSE
