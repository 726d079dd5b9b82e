SPECIFICATION BindingSpec
CONSTANTS
    Programs <- EarlierLabel
    CaseValues = {"1", "2", "3"}
    StepLimit = 10
    DepthLimit = 4
    MaxCalls = 1
    Parameters <- MCParameters
    Named <- MCNamed
    Mentions <- MCMentions
    Asks <- MCAsks
    Addressed = {15}
    Awkward = {}
    Temporary = {14}
INVARIANTS
    JumpsFindLabels
CHECK_DEADLOCK FALSE
