CONSTANTS
  MetaExchange = TRUE
  Nodes <- MC_Nodes
SPECIFICATION Spec
INVARIANT
  PostSendReachesPeer
