SPECIFICATION Spec
CONSTANTS
  Procs = {p1}
  TestFolder = 2
  MaxRevision = 1
  Files <- MCFiles
  EntryPoints <- MCEntryPoints
  Defaults <- MCDefaults
  Lists <- MCLists
  BadModels = {}
  ListFails = {}
  RenderFails = {}
  Protected <- MCProtected
  Declares <- MCDeclares
  NoId = NoId
  Code <- MCCode
  Empty = "empty"
  Broken = {"broken"}
  Neat <- MCNeat
  Requests <- MCRequests
  HasRegions = TRUE
  HasFormatter = TRUE
  Edits = {"region", "bare"}
  EditsDuring = "idle"
  Cancels = FALSE
INVARIANTS
  UserCodeKept
