SPECIFICATION FairAutograd
CONSTANTS
  Nodes <- MCNodes
  Leaves <- MCLeaves
  Graphs <- MCGraphs
  Outputs <- MCOutputs
  Retained = {2}
  MaxCalls = 2
INVARIANTS AutogradTypeOK RunsOnce AfterUsers GradientsComplete RaisesAfterRelease
PROPERTY CallsReturn
