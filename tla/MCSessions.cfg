SPECIFICATION MCSpec
CONSTANTS
  t1 = t1
  t2 = t2
  l1 = l1
  l2 = l2
  Tabs = {t1}
  Lanes = {l1, l2}
  TabOf <- MCTabOf
  MaxVersion = 2
  Placed = {b1}
  Filters = {"all", "PENDING"}
  Results = {"WON", "REFUNDED"}
  Loads = {d1, d2}
  NoFilter = NoFilter
INVARIANTS TypeOK OldSessionsAreDead FlagClearWhenQuiet
PROPERTIES EveryRequestEnds DecidedIsShown
CHECK_DEADLOCK FALSE
