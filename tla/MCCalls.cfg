CONSTANTS
    Fns = {"v", "s", "n"}
    Variadic = {"v"}
    Simple = {"s"}
    Slotted = {"s", "n"}
    Library = {"sort"}
    Parameters <- MCParameters
    Counts = {1, 2}
    Kinds = {"int", "negative", "void"}
    Lists = {"ap", "bp"}
    DepthLimit = 3
    MaxCalls = 3
    MaxEntries = 2
SPECIFICATION Spec
INVARIANTS CurrentIsInnermost ListsNameTheirCall FramesPrivate
CHECK_DEADLOCK FALSE
