CONSTANTS
    Width <- MCWidth
    Bytes <- MCBytes
    Variables <- MCVariables
    ReadOnly = {"const"}
    Literals <- MCLiterals
    TypeWords <- MCTypeWords
    Scenes <- MCScenes
    Completions <- MCCompletions
    Local <- MCLocal
    Unset = Unset
    MaxRuns = 2
    Scripts <- MCScripts
    Names = {"a", "b", "c", "d", "e", "f", "g", "h", "i", "j", "k", "x", "S", "T"}
    SuffixLimit = 3
    TypeLimit = 7
    SizeLimit = 100
    CountLimit = 7
    NameLimit = 6
    PointerBytes = 8
    FloatBytes = 4
    DoubleBytes = 8
SPECIFICATION SessionSpec
INVARIANTS
    ParsesAsC
    TypesWhole
    NamesReadBack
PROPERTIES
    ValuesAsC
    DeclaresAsC
CHECK_DEADLOCK FALSE
