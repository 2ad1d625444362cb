CONSTANTS
  NumL2 = 3
  NumL3 = 3
  Maps <- MCMaps
SPECIFICATION Spec
INVARIANTS Confined Translated
PROPERTIES OnlyItsPages
