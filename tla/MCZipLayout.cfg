CONSTANTS
  Mappings <- MCMappings
  MaxMappings = 3
  NameOrder <- MCNameOrder
SPECIFICATION Spec
INVARIANTS NoClash ParentsFirst ManifestFirst NothingDropped
CHECK_DEADLOCK FALSE
