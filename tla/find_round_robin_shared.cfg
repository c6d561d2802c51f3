SPECIFICATION Spec
CONSTANTS
  Kind <- BothKinds
  Server <- Endpoints
  Request = {r1, r2}
  Listings <- FixedListings
  UsizeMax = 15
  SelectionBound = 6
INVARIANT EvenWithinKind
CHECK_DEADLOCK FALSE
