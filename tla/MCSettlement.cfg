SPECIFICATION Spec
CONSTANTS
  e1 = e1
  e2 = e2
  football = football
  tennis = tennis
  Events = {e1, e2}
  StartsAt <- MCStartsAt
  SportOf <- MCSportOf
  Batch = 2
  ByHand = {e1}
  Lookback = 2
  StaleAfter = 1
  KeepFor = 1
  MaxNow = 4
  MaxFaults = 1
INVARIANT SettlementTypeOK
PROPERTIES ResultsAreSettled StaleAreCancelled RunsEnd
CHECK_DEADLOCK FALSE
