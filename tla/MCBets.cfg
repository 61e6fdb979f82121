SPECIFICATION Spec
CONSTANTS
  Users = {u1, u2}
  Preds = {p1, p2}
  Accas = {}
  Events = {e1}
  Names = {"home", "away"}
  Norm <- MCNorm
  Stakes = {2}
  Prices = {3}
  Scale = 2
  DriftPercent = 10
  None = None
  CombinedPayout <- MCCombinedPayout
  MaxLegs = 10
  Handlers = {h1, h2}
  OutcomeLists = {{"home", "away"}}
  Accruals = {1}
  Bonuses = {0, 1}
  SignupBonus = 2
  DeleteAge = 0
  MaxTime = 1
  MaxStaked = 4
SYMMETRY MCSymmetry
INVARIANTS PredictionsPaidOnce NothingOpenOnFinished
PROPERTIES PredictionsAreBets
CHECK_DEADLOCK FALSE
