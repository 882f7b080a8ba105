SPECIFICATION BothSpec
CONSTANTS
  Owners <- MCOwners
  Kind <- MCKind
  Primary <- MCPrimary
  Paths = {1, 2, 3}
  Digests = {"d", "e"}
  List <- MCList
  Before <- MCBefore
  LoadedFiles <- MCLoadedFiles
  LoadedGroups <- MCLoadedGroups
  LoadedRefs <- MCLoadedRefs
INVARIANTS IndexOK PublishedIsCanonical
PROPERTY StoreRefined
CHECK_DEADLOCK FALSE
