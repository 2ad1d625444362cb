CONSTANTS
  Tests = {{"malloc"}, {}, {"gic_timer"}}
SPECIFICATION Spec
INVARIANTS ReadyToRun SharedFirst
PROPERTIES Ticking
