CONSTANTS
  Nodes <- MC_Nodes
SPECIFICATION Spec
PROPERTY
  TestReturns
