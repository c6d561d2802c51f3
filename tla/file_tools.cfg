SPECIFICATION Spec
CONSTANTS
  c1 = c1
  c2 = c2
  c3 = c3
  Root <- Ws
  Directories <- Dirs
  Files <- AllFiles
  Call = {c1, c2, c3}
  Requests <- Asked
  Size <- Sizes
  Missing = Missing
  Unsettled = Unsettled
INVARIANTS IInv PathsMeant QuietRead QuietFile
CHECK_DEADLOCK FALSE
