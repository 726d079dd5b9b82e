CONSTANTS
    Processes = {"p", "q"}
    Chars <- MCChars
    Blanks <- MCBlanks
    Suggestions <- MCSuggestions
    LineLimit = 2
    HistoryLimit = 2
    MaxNested = 2
    Settings <- MCSettings
    Values <- MCValues
    Default <- MCDefault
    Scenes <- MCScenes
SPECIFICATION Spec
INVARIANTS EditorInBounds PreferencesWhole HistorySurvives
