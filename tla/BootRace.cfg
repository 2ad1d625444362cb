CONSTANTS
  Tests = {{}}
SPECIFICATION Spec
INVARIANT LateShared
