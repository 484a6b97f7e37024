SPECIFICATION FairSpec
CONSTANTS
  Fds = {4, 5}
  MaxNodes = 6
INVARIANTS
  TypeOK
  NodesAccounted
  FinalStepsOnList
  FinalEmpties
PROPERTIES
  FinalEnds
