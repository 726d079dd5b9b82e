SPECIFICATION Spec
CONSTANTS
  Program = program
  Children = {c1}
  SignalSlots = 2
  Handles <- MCHandles
  MaxActivities = 4
CHECK_DEADLOCK FALSE
INVARIANTS
  NoSpuriousInterrupt
  NestedRestore
  OnlyLateArrivalsAreMissed
PROPERTY SignalsAreHandled
