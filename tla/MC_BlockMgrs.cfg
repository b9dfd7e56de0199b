SPECIFICATION Spec
INVARIANTS
  TreeTypeOK
  BitmapTypeOK
  TreeSerializationExact
  BitmapSerializationExact
PROPERTIES
  TreeImplementsBlockSet
