SPECIFICATION LocalizeSpec
CONSTANTS
  none = none
  None = none
  Languages = {"python", "go", "rust", "typescript"}
  FilesOf <- MCFilesOf
  FileReplies <- MCFileReplies
  SymbolReplies <- MCSymbolReplies
  EditReplies <- MCEditReplies
  Window = 1
  MaxFiles = 2
  Samples = 2
INVARIANT AuthorizedLinesAreShown
INVARIANT TargetsAreEditable
INVARIANT SymbolsAreInSkeleton
CHECK_DEADLOCK FALSE
