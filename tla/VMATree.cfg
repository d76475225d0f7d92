SPECIFICATION Spec
CONSTANTS
  HighestUserAddress = 6
  MaxNodes = 13
  Lengths = {1, 7}
INVARIANTS
  SearchTree
  RedBlack
  AreasExact
  ReservedReachable
PROPERTY ImplementsSegmentMap
CHECK_DEADLOCK FALSE
VIEW CanonicalTree
