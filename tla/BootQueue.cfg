CONSTANTS
  Tests = {{}}
SPECIFICATION Spec
PROPERTY QueuesDrained
