SPECIFICATION MCSpec
CONSTANTS
  Importers = {i1, i2}
  Syncers = {s1}
  Bettors = {b1}
  NoRow = NoRow
  r1 = r1
  r2 = r2
  Rows = {r1, r2}
  TTL = 1
  Threshold = 1
  MaxLag = 1
  MaxAge = 5
  Settlers = {e1, e2}
  BonusAt = {3, 5}
  WinsNeeded = {1, 3}
  PerEvent = 2
  MaxScored = 5
  Members = {1, 2, 3}
  NoMember = 0
  Requests = {q1, q2}
  Counts = {k1, k2}
  MaxMembers = 2
  MaxEarned = 1
  Fixtures = {f1}
  Chips = {"all", "LOCKED"}
  Orders = {o1}
  Sheets = {NoSheet, s1}
  NoSheet = NoSheet
  NoFixture = NoFixture
  Readings = {l1}
  MaxWrites = 1
SYMMETRY MCSymmetry
CONSTRAINT Bounds
INVARIANTS SeasonTypeOK ImportedOnce PriceAge SavesWhatItShows BonusesNeedWins OneOwner NeverOverfull StandingsInOrder
PROPERTIES AwardedByTheWin
CHECK_DEADLOCK FALSE
