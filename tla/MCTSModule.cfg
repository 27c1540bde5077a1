SPECIFICATION ModuleSpec
CONSTANTS
    Classes = {"A", "B", "C", "Other"}
    DataTypes = {"DataType"}
    Classifiers <- MCClassifiers
    None = "None"
    SubClasses = {}
    Enums <- MCEnums
    Extensions <- MCExtensions
INVARIANTS
    ChainsPrecede
    EveryClassPlaced
    BasesAreLoaded
    ImportsResolve
PROPERTIES
    Returns
CHECK_DEADLOCK FALSE
