CONSTANTS
    Alphabets <- MCAlphabets
    MainFile = "main.c"
    Predefined <- MCPredefined
    ExpansionLimit = 8
    ConditionalLimit = 2
    IncludeLimit = 2
    MaxLines = 5
SPECIFICATION Spec
INVARIANTS GroupsChosen ExpandsAsC LinesStayTrue
CHECK_DEADLOCK FALSE
