SPECIFICATION PartSpec
CONSTANTS
    Packages = {"shop", "sub"}
    Root = "shop"
    Classes = {"Book", "Item", "Named", "Part"}
    Interfaces = {"Named"}
    Abstract = {"Named", "Item"}
    Enums = {"Kind"}
    Owner <- MCOwner
    NoModule = NoModule
    Projects <- MCProjects

    Keys <- MCKeys
    MCKeys = {"nsURI", "debug", "packages", "pakages"}
    Tokens <- MCTokens
    Texts <- MCTexts
    Entries <- MCEntries
    NotGiven = NotGiven
    Files <- MCFiles
    Annotations <- MCAnnotations
    DeclaredKeys <- MCDeclared
    PackageScoped <- MCPackageScoped
    Default <- MCDefault
    EngineValues <- MCEngineValues
    DefaultSpecs <- MCDefaultSpecs
    Mapped <- MCPackages
    MaxEntries = 2

    Paths <- MCPaths
    packagePath <- MCPackagePath
    Words <- MCWords
    Dotted = {"y.c"}
    MaxReferences = 3
INVARIANTS
    PackagesAreDirectories
    DeclaredOnce
    ReferencesResolve
    SplitIsWhole
    OrderDoesNotMatter
    DocumentedOrder
    NamesIdentify
    IdentifiersResolve
CHECK_DEADLOCK FALSE
