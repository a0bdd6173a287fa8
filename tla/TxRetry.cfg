SPECIFICATION Spec
CONSTANTS
  Limits = {0, 1, 3, 38, 40}
INVARIANTS TypeOK AppliedUnlessMistaken NoOpenTransaction PanicsBeyond38
PROPERTIES EveryStepCounts Returns
CHECK_DEADLOCK FALSE
