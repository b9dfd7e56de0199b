CONSTANTS
  MetaExchange = FALSE
  Nodes <- MC_Nodes
SPECIFICATION Spec
INVARIANT
  ConnTableConsistent
