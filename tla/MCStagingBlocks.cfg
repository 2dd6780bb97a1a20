SPECIFICATION Spec
CONSTANTS
  a1 = a1
  b1 = b1
  c1 = c1
  d1 = d1
  Genesis = Genesis
  NoBlock = NoBlock
  AllBlocks = {a1, b1, c1, d1}
  Trees <- AllTrees
INVARIANTS
  AcceptanceIsComplete
  AcceptedIsSafe
  ConfirmedStreamKept
  ReadyIsAttachable
PROPERTIES
  OrphansStayOrphaned
CHECK_DEADLOCK FALSE
