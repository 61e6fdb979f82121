SPECIFICATION Spec
CONSTANTS
  Users = {u1}
  Preds = {}
  Accas = {a1}
  Events = {e1, e2}
  Names = {"home", "away"}
  Norm <- MCNorm
  Stakes = {2}
  Prices = {3}
  Scale = 2
  DriftPercent = 10
  None = None
  CombinedPayout <- MCCombinedPayout
  MaxLegs = 3
  Handlers = {h1, h2}
  OutcomeLists = {{"home", "away"}}
  Accruals = {0}
  Bonuses = {0}
  SignupBonus = 4
  DeleteAge = 0
  MaxTime = 1
  MaxStaked = 6
PROPERTIES AccumulatorsPaidOnce AccumulatorMatchesLegs AccumulatorsAreBets
ACTION_CONSTRAINTS NoIdleRequests LegsBackHome
SYMMETRY MCAccaSymmetry
CHECK_DEADLOCK FALSE
