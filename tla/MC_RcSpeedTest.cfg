CONSTANTS
  Nodes <- MC_Nodes
  MaxGap <- MC_MaxGap
  MetaCap <- MC_MetaCap
SPECIFICATION Spec
INVARIANTS
  TypeOK
  MetaConservation
PROPERTIES
  SendsForever
