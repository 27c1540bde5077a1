SPECIFICATION ModuleSpec
CONSTANTS
    Classes = {"A", "B", "C", "Other"}
    DataTypes = {"DataType"}
    Classifiers <- MCClassifiers
    None = "None"
    SubClasses = {"Other"}
    Enums <- MCEnums
    Extensions <- MCExtensions
INVARIANTS
    EveryFileExported
CHECK_DEADLOCK FALSE
