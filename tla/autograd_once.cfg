SPECIFICATION AutogradSpec
CONSTANTS
  Nodes <- MCNodes
  Leaves <- MCLeaves
  Graphs <- MCSquare
  Outputs <- MCLast
  Retained = {2}
  MaxCalls = 1
INVARIANT RaisesSecondTime
