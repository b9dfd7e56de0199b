CONSTANTS
  Nodes <- MC_Nodes
SPECIFICATION Spec
INVARIANTS
  TypeOK
  BarrierChecksHold
  SendsAfterAllRecvsPosted
PROPERTIES
  SendsComplete
