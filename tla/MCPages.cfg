SPECIFICATION MCSpec
CONSTANTS
  anna = anna
  Punters = {anna, ben}
  Nobody = Nobody
  Unloaded = Unloaded
  Matches = {m1, m2}
  Picks = {p1, p2}
  Combined = Combined
  MaxTokens = 2
  Calls = {c1, c2}
  PageSize = 1
  MaxPosted = 4
  Unread = Unread
  Placed = {b1}
  Filters = {"all", "PENDING"}
  Results = {"WON", "REFUNDED"}
  Loads = {d1, d2}
  NoFilter = NoFilter
  Accounts = {anna, ben}
  Admins = {anna}
  Guest = Guest
  Targets = {"page", "root", "admin", "login", "adminLogin", "adminOther"}
  Depth = 3
  Nowhere = Nowhere
  MaxToasts = 4
  MaxVisible = 3
INVARIANTS PagesTypeOK SlipStaysWithUser NothingSkipped RedirectsEnd HeaderIsTheUsers NoToastIsStuck
CHECK_DEADLOCK FALSE
