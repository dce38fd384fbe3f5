SPECIFICATION MCExtensionSpec
CONSTANTS
  Requests = {1, 2, 3}
  Names = {ann, bob}
  None = None
INVARIANTS
  GoInv
  RepliesNumbered
PROPERTIES
  ImplementsService
CHECK_DEADLOCK FALSE
