CONSTANTS
  MetaExchange = TRUE
  Nodes <- MC_Nodes
SPECIFICATION Spec
PROPERTY
  ConnMetaAliveWhenRead
