SPECIFICATION FairSpec
CONSTANTS
  Procs = {p1}
  TestFolder = 2
  MaxRevision = 2
  Files <- MCFiles
  EntryPoints <- MCEntryPoints
  Defaults <- MCDefaults
  Lists <- MCLists
  BadModels = {}
  ListFails = {}
  RenderFails = {}
  Protected <- MCProtected
  Declares <- MCDeclares
  NoId = NoId
  Code = {"empty", "untidy", "tidy"}
  Empty = "empty"
  Broken = {}
  Neat <- MCNeat
  Requests <- MCRequests
  HasRegions = TRUE
  HasFormatter = TRUE
  Edits = {"region", "outside", "crlf", "delete"}
  EditsDuring = "idle"
  Cancels = TRUE
INVARIANTS
  TypeOK
  SuccessIsComplete
PROPERTIES
  WriteLeavesNoDifference
  DiffIsTruthful
  RunsEnd
