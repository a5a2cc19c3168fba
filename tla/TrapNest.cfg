CONSTANTS
  Exceptions = {3}
  Irqs = {32,33,39,40,47}
  MaxDepth = 4
  MAX_FILE = 6
  Names <- MCNames
SPECIFICATION FileSpec
INVARIANTS RegsRight ResumeExact Drained Deliverable AnswerRight SizesRight PathsResolve
