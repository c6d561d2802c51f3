SPECIFICATION Spec
CONSTANTS
  Kind <- BothKinds
  Server <- Endpoints
  Request = {r1, r2}
  Listings <- ChangingListings
  UsizeMax = 3
  SelectionBound = 7
INVARIANTS FullTurn WithinTwoTurns
CHECK_DEADLOCK FALSE
