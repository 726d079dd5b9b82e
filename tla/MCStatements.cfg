SPECIFICATION BindingSpec
CONSTANTS
    Programs <- PassingPrograms
    CaseValues = {"1", "2", "3"}
    StepLimit = 10
    DepthLimit = 4
    MaxCalls = 2
    Parameters <- MCParameters
    Named <- MCNamed
    Mentions <- MCMentions
    Asks <- MCAsks
    Addressed = {15}
    Awkward = {}
    Temporary = {14}
INVARIANTS
    FollowsText
    NamesAsScoped
PROPERTIES
    StopsAtOnce
    CallsEnd
CHECK_DEADLOCK FALSE
