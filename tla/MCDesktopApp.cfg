SPECIFICATION MCSpec
CONSTANTS
  Endpoints = {e1, e2}
  Home = e1
  Roles = {"ADMIN", "VIEWER"}
  MaxEdits = 2
  MaxChanges = 1
  MaxLogins = 2
  MaxRefreshes = 2
  Missing = Missing
INVARIANT ReadyBacked
PROPERTY ShownSettles
PROPERTY LogoutSettles
CHECK_DEADLOCK FALSE
