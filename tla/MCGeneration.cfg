SPECIFICATION Spec
SYMMETRY Symmetric
CONSTANTS
  Procs = {p1, p2}
  TestFolder = 1
  MaxRevision = 3
  Files <- MCFiles
  EntryPoints <- MCEntryPoints
  Defaults <- MCDefaults
  Lists <- MCLists
  BadModels = {}
  ListFails <- MCListFails
  RenderFails <- MCRenderFails
  Protected <- MCProtected
  Declares <- MCDeclares
  NoId = NoId
  Code = {"empty", "tidy"}
  Empty = "empty"
  Broken = {}
  Neat <- MCNeat
  Requests <- MCWrites
  HasRegions = TRUE
  HasFormatter = TRUE
  Edits = {"region", "unpaired"}
  EditsDuring = "apart"
  Cancels = FALSE
INVARIANTS
  UserCodeKept
  SealedLast
PROPERTIES
  RegeneratesAtomically
