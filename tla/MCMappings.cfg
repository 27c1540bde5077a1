SPECIFICATION OptionsSpec
CONSTANTS
  Keys <- MCKeys
  MCKeys = {"nsURI", "debug", "packages", "pakages"}
  Tokens <- MCTokens
  Texts <- MCTexts
  Entries <- MCEntries
  NotGiven = NotGiven
  Files <- MCFiles
  Annotations <- MCAnnotations
  DeclaredKeys <- MCDeclared
  PackageScoped <- MCPackageScoped
  Default <- MCDefault
  EngineValues <- MCEngineValues
  DefaultSpecs <- MCDefaultSpecs
  Mapped <- MCPackages
  MaxEntries = 1
INVARIANTS
  MappingsInOrder
CHECK_DEADLOCK FALSE
