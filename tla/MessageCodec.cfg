SPECIFICATION Spec
CONSTANTS
  Types <- Generated
  Value <- SampleValue
  UnknownField <- NewerField
  MaxCalls = 3
INVARIANTS
  SizeExact
  HasBitsConsistent
PROPERTIES
  MessagesAreRecords
CHECK_DEADLOCK FALSE
