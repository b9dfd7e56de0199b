CONSTANTS
  MetaExchange = TRUE
  Nodes <- MC_Nodes
SPECIFICATION Spec
INVARIANTS
  TypeOK
  ReliableChecksHold
PROPERTIES
  AddConnectionReturns
  PeerCloseNoticed
