CONSTANTS
  Exceptions = {0,14}
  Irqs = {33}
  MaxDepth = 2
SPECIFICATION Spec
INVARIANTS RegsRight
