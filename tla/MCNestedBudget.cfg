SPECIFICATION Spec
CONSTANTS
  Children = {c1, c2}
  Main = main
  NULL = NULL
  StepLimit = 4
  FrameLimit = 2
  NestingLimit = 3
  DefaultSteps = 9
  DefaultFrames = 3
  DefaultNesting = 4
  Word = 8
  StepArguments = {1}
  FrameArguments = {0, 8}
  NestingArguments = {1, 8}
CHECK_DEADLOCK FALSE
INVARIANTS StaysWithinHost InterpretSharesFrames
PROPERTY RunsEnd
