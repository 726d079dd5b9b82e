CONSTANTS
    MaxElements = 5
    Keys <- MCKeys
SPECIFICATION Spec
INVARIANTS SortsAndFinds NothingLost
CHECK_DEADLOCK FALSE
